---- MODULE Spec2Model ----
(***************************************************************************)
(* Model of the SecurityHeaderX header-evaluation and scoring engine:      *)
(* the rule registry (src/headers), the configuration validators, the      *)
(* disclosure and cookie analyzers, SecurityHeaderChecker.analyzeHeaders   *)
(* and checkUrl (src/core/scanner.js) and scanUrl (core/api).              *)
(*                                                                         *)
(* Representation.                                                         *)
(*  - A JavaScript string is a TLA+ string; the String.prototype methods   *)
(*    the code uses (includes, toUpperCase, split, trim, match, ...) are   *)
(*    operators over the characters of the string.                         *)
(*  - A header value is a tagged record: Str(s) for a string, Arr(a) for   *)
(*    an array of strings (Array.isArray).  An absent property            *)
(*    (undefined) is Undefined.                                            *)
(*  - Point quantities are fractions with one decimal in the code          *)
(*    (weight * 0.8, penalty 0.5, ...).  They are kept exactly, in tenths  *)
(*    of a point; the final score is rounded from the exact rational.      *)
(***************************************************************************)
EXTENDS Integers, Sequences, FiniteSets, TLC

(***************************************************************************)
(* JavaScript values                                                       *)
(***************************************************************************)
Undefined == [kind |-> "undefined"]
Null == [kind |-> "null"]
Str(s) == [kind |-> "string", s |-> s]
Arr(a) == [kind |-> "array", a |-> a]
Num(n) == [kind |-> "number", n |-> n]
Bool(b) == [kind |-> "boolean", b |-> b]
Obj(keys, vals) == [kind |-> "object", keys |-> keys, vals |-> vals]
NaN == [kind |-> "nan"]

IsStr(v) == v.kind = "string"
IsArr(v) == v.kind = "array"

\* a TypeError raised by calling a method the receiver does not have
TypeError == [threw |-> TRUE, message |-> "TypeError"]

(***************************************************************************)
(* String.prototype                                                        *)
(***************************************************************************)
Letters == <<
  <<"a", "A">>, <<"b", "B">>, <<"c", "C">>, <<"d", "D">>, <<"e", "E">>,
  <<"f", "F">>, <<"g", "G">>, <<"h", "H">>, <<"i", "I">>, <<"j", "J">>,
  <<"k", "K">>, <<"l", "L">>, <<"m", "M">>, <<"n", "N">>, <<"o", "O">>,
  <<"p", "P">>, <<"q", "Q">>, <<"r", "R">>, <<"s", "S">>, <<"t", "T">>,
  <<"u", "U">>, <<"v", "V">>, <<"w", "W">>, <<"x", "X">>, <<"y", "Y">>,
  <<"z", "Z">> >>
Digits == <<"0", "1", "2", "3", "4", "5", "6", "7", "8", "9">>
HexDigits == Digits \o <<"a", "b", "c", "d", "e", "f">>
Spaces == {" ", "\t"}

\* the position of x in the sequence a, 0 when it is not there
Position(a, x) ==
  IF \E i \in 1..Len(a) : a[i] = x THEN CHOOSE i \in 1..Len(a) : a[i] = x ELSE 0

\* the lower-case and the upper-case form of one character
LowerChar(c) ==
  IF \E i \in 1..26 : Letters[i][2] = c
  THEN Letters[CHOOSE i \in 1..26 : Letters[i][2] = c][1] ELSE c

UpperChar(c) ==
  IF \E i \in 1..26 : Letters[i][1] = c
  THEN Letters[CHOOSE i \in 1..26 : Letters[i][1] = c][2] ELSE c

\* s.toLowerCase() and s.toUpperCase(), halving the string so that the
\* evaluation stays shallow
RECURSIVE ToLowerCase(_)
ToLowerCase(s) ==
  IF Len(s) = 0 THEN ""
  ELSE IF Len(s) = 1 THEN LowerChar(s)
  ELSE ToLowerCase(SubSeq(s, 1, Len(s) \div 2))
       \o ToLowerCase(SubSeq(s, Len(s) \div 2 + 1, Len(s)))

RECURSIVE ToUpperCase(_)
ToUpperCase(s) ==
  IF Len(s) = 0 THEN ""
  ELSE IF Len(s) = 1 THEN UpperChar(s)
  ELSE ToUpperCase(SubSeq(s, 1, Len(s) \div 2))
       \o ToUpperCase(SubSeq(s, Len(s) \div 2 + 1, Len(s)))

\* s.startsWith(sub, i - 1): sub occurs in s at position i
MatchesAt(s, sub, i) ==
  i >= 1 /\ i + Len(sub) - 1 <= Len(s) /\ SubSeq(s, i, i + Len(sub) - 1) = sub

IsDigit(c) == \E d \in 1..Len(Digits) : Digits[d] = c

\* s.startsWith(sub)
StartsWith(s, sub) == Len(sub) <= Len(s) /\ SubSeq(s, 1, Len(sub)) = sub

\* s.includes(sub)
Includes(s, sub) ==
  \E i \in 1..(Len(s) - Len(sub) + 1) : SubSeq(s, i, i + Len(sub) - 1) = sub

\* s.indexOf(sub), 1-based; 0 when sub does not occur
IndexOf(s, sub) ==
  IF \E i \in 1..(Len(s) - Len(sub) + 1) : SubSeq(s, i, i + Len(sub) - 1) = sub
  THEN CHOOSE i \in 1..(Len(s) - Len(sub) + 1) :
         /\ SubSeq(s, i, i + Len(sub) - 1) = sub
         /\ \A j \in 1..(i - 1) : SubSeq(s, j, j + Len(sub) - 1) # sub
  ELSE 0

\* s.split(sep) for a non-empty separator
RECURSIVE Split(_, _)
Split(s, sep) ==
  LET cut(i) ==
        IF i = 0 THEN <<s>>
        ELSE <<SubSeq(s, 1, i - 1)>> \o Split(SubSeq(s, i + Len(sep), Len(s)), sep)
  IN  cut(IndexOf(s, sep))

\* s.trimStart() and s.trimEnd()
TrimStart(s) ==
  SubSeq(s, CHOOSE k \in 1..(Len(s) + 1) :
              /\ \A i \in 1..(k - 1) : SubSeq(s, i, i) \in Spaces
              /\ k <= Len(s) => SubSeq(s, k, k) \notin Spaces,
         Len(s))

TrimEnd(s) ==
  SubSeq(s, 1, CHOOSE k \in 0..Len(s) :
                 /\ \A i \in (k + 1)..Len(s) : SubSeq(s, i, i) \in Spaces
                 /\ k >= 1 => SubSeq(s, k, k) \notin Spaces)

Trim(s) == TrimEnd(TrimStart(s))

\* the longest prefix of s made of the characters of the sequence alphabet
TakeWhileIn(s, alphabet) ==
  LET in(i) == \E d \in 1..Len(alphabet) : alphabet[d] = SubSeq(s, i, i)
  IN  SubSeq(s, 1, CHOOSE k \in 0..Len(s) :
                     /\ \A i \in 1..k : in(i)
                     /\ k < Len(s) => ~in(k + 1))

\* the number a string of digits of alphabet denotes, the radix being the
\* length of alphabet
RECURSIVE DigitsValue(_, _)
DigitsValue(s, alphabet) ==
  IF s = "" THEN 0
  ELSE DigitsValue(SubSeq(s, 1, Len(s) - 1), alphabet) * Len(alphabet)
       + (Position(alphabet, SubSeq(s, Len(s), Len(s))) - 1)

\* Array.prototype.join(sep) on an array of strings
RECURSIVE Join(_, _)
Join(a, sep) ==
  IF Len(a) = 0 THEN ""
  ELSE IF Len(a) = 1 THEN a[1]
  ELSE a[1] \o sep \o Join(Tail(a), sep)

\* String(v) for a header value: an array is joined with commas
JsString(v) ==
  IF IsArr(v) THEN Join(v.a, ",")
  ELSE IF v.kind = "undefined" THEN "undefined" ELSE v.s

\* parseInt(v) without radix: leading white space, an optional sign, an
\* optional 0x prefix, then the longest run of digits; NaN without digits
ParseInt(v) ==
  LET number(body, alphabet, sign) ==
        IF body = "" THEN NaN ELSE Num(sign * DigitsValue(body, alphabet))
      unsigned(u, sign) ==
        IF StartsWith(u, "0x") \/ StartsWith(u, "0X")
        THEN number(TakeWhileIn(ToLowerCase(SubSeq(u, 3, Len(u))), HexDigits),
                    HexDigits, sign)
        ELSE number(TakeWhileIn(u, Digits), Digits, sign)
      signed(t) ==
        IF StartsWith(t, "-") THEN unsigned(Tail(t), 0 - 1)
        ELSE IF StartsWith(t, "+") THEN unsigned(Tail(t), 1)
        ELSE unsigned(t, 1)
  IN  signed(TrimStart(JsString(v)))

\* truthiness taking the empty string for a value that is there
TruthyOrEmptyString(v) ==
  CASE v.kind = "undefined" -> FALSE
    [] v.kind = "null" -> FALSE
    [] v.kind = "nan" -> FALSE
    [] v.kind = "number" -> v.n # 0
    [] v.kind = "boolean" -> v.b
    [] OTHER -> TRUE

\* JavaScript truthiness of a header value: '' and undefined are falsy,
\* every array (even an empty one) is truthy
Truthy(v) ==
  CASE v.kind = "undefined" -> FALSE
    [] v.kind = "null" -> FALSE
    [] v.kind = "nan" -> FALSE
    [] v.kind = "string" -> v.s # ""
    [] v.kind = "number" -> v.n # 0
    [] v.kind = "boolean" -> v.b
    [] OTHER -> TRUE

\* value.includes(x): String.prototype.includes searches a substring,
\* Array.prototype.includes searches an element equal to x
ValueIncludes(v, x) ==
  IF IsArr(v) THEN \E i \in 1..Len(v.a) : v.a[i] = x
  ELSE Includes(v.s, x)

(***************************************************************************)
(* JSON.parse, for the fragment of JSON the header values of the model use: *)
(* objects, arrays, strings without escape sequences, integers, true,      *)
(* false and null, with spaces and tabs as white space.  A parsed array    *)
(* holds tagged values, a parsed object its keys and values in order.      *)
(***************************************************************************)
ParseFail == [ok |-> FALSE]
ParseOk(v, rest) == [ok |-> TRUE, val |-> v, rest |-> rest]

\* a JSON integer: an optional minus and digits without a leading zero
JsonNumber(s) ==
  LET number(body, rest, sign) ==
        IF body = "" \/ (Len(body) > 1 /\ Head(body) = "0") THEN ParseFail
        ELSE ParseOk(Num(sign * DigitsValue(body, Digits)),
                     SubSeq(rest, Len(body) + 1, Len(rest)))
      unsigned(u, sign) == number(TakeWhileIn(u, Digits), u, sign)
  IN  IF StartsWith(s, "-") THEN unsigned(Tail(s), 0 - 1) ELSE unsigned(s, 1)

\* a JSON string, s starting at the opening quote
JsonString(s) ==
  LET closed(body, close) ==
        IF close = 0 \/ Includes(SubSeq(body, 1, close - 1), "\\") THEN ParseFail
        ELSE ParseOk(Str(SubSeq(body, 1, close - 1)),
                     SubSeq(body, close + 1, Len(body)))
  IN  closed(Tail(s), IndexOf(Tail(s), "\""))

RECURSIVE JsonValue(_), JsonElements(_, _), JsonMembers(_, _, _)
JsonValue(s0) ==
  LET array(t) ==
        IF StartsWith(t, "]") THEN ParseOk(Arr(<<>>), Tail(t))
        ELSE JsonElements(t, <<>>)
      object(t) ==
        IF StartsWith(t, "}") THEN ParseOk(Obj(<<>>, <<>>), Tail(t))
        ELSE JsonMembers(t, <<>>, <<>>)
      value(s) ==
        IF s = "" THEN ParseFail
        ELSE IF StartsWith(s, "null") THEN ParseOk(Null, SubSeq(s, 5, Len(s)))
        ELSE IF StartsWith(s, "true") THEN ParseOk(Bool(TRUE), SubSeq(s, 5, Len(s)))
        ELSE IF StartsWith(s, "false") THEN ParseOk(Bool(FALSE), SubSeq(s, 6, Len(s)))
        ELSE IF Head(s) = "\"" THEN JsonString(s)
        ELSE IF Head(s) = "[" THEN array(TrimStart(Tail(s)))
        ELSE IF Head(s) = "{" THEN object(TrimStart(Tail(s)))
        ELSE JsonNumber(s)
  IN  value(TrimStart(s0))

\* the elements of an array after "[" or ",", up to and including "]"
JsonElements(s, acc) ==
  LET next(r, elements) ==
        IF StartsWith(r, ",") THEN JsonElements(Tail(r), elements)
        ELSE IF StartsWith(r, "]") THEN ParseOk(Arr(elements), Tail(r))
        ELSE ParseFail
      element(e) ==
        IF e.ok THEN next(TrimStart(e.rest), Append(acc, e.val)) ELSE ParseFail
  IN  element(JsonValue(s))

\* the members of an object after "{" or ",", up to and including "}"
JsonMembers(s0, keys, vals) ==
  LET next(r, ks, vs) ==
        IF StartsWith(r, ",") THEN JsonMembers(Tail(r), ks, vs)
        ELSE IF StartsWith(r, "}") THEN ParseOk(Obj(ks, vs), Tail(r))
        ELSE ParseFail
      member(e, ks) ==
        IF e.ok THEN next(TrimStart(e.rest), ks, Append(vals, e.val)) ELSE ParseFail
      colon(c, ks) ==
        IF StartsWith(c, ":") THEN member(JsonValue(Tail(c)), ks) ELSE ParseFail
      key(k) ==
        IF k.ok THEN colon(TrimStart(k.rest), Append(keys, k.val.s)) ELSE ParseFail
      quoted(s) == IF StartsWith(s, "\"") THEN key(JsonString(s)) ELSE ParseFail
  IN  quoted(TrimStart(s0))

\* JSON.parse(value): the text is String(value); ok is FALSE for a SyntaxError
JsonParse(v) ==
  LET whole(e) == IF e.ok /\ TrimStart(e.rest) = "" THEN e ELSE ParseFail
  IN  whole(JsonValue(JsString(v)))

\* o.k for a non-null o: the last member named k of an object, undefined
\* for a missing member and for the primitives and arrays the model parses
GetProp(o, k) ==
  IF o.kind = "object" /\ \E i \in 1..Len(o.keys) : o.keys[i] = k
  THEN o.vals[CHOOSE i \in 1..Len(o.keys) :
                /\ o.keys[i] = k
                /\ \A j \in (i + 1)..Len(o.keys) : o.keys[j] # k]
  ELSE Undefined

\* Number(v) as the relational operators apply it
ToNumber(v) ==
  LET text(t) ==
        IF t = "" THEN Num(0)
        ELSE IF TakeWhileIn(t, Digits) = t THEN Num(DigitsValue(t, Digits))
        ELSE NaN
  IN  CASE v.kind = "number" -> v
        [] v.kind = "boolean" -> Num(IF v.b THEN 1 ELSE 0)
        [] v.kind = "null" -> Num(0)
        [] v.kind = "string" -> text(Trim(v.s))
        [] v.kind = "array" /\ Len(v.a) = 0 -> Num(0)
        [] OTHER -> NaN

\* a < n and a > n for a number n: false when a converts to NaN
LessThan(a, n) ==
  LET below(x) == x.kind = "number" /\ x.n < n
  IN  below(ToNumber(a))

GreaterThan(a, n) ==
  LET above(x) == x.kind = "number" /\ x.n > n
  IN  above(ToNumber(a))


(***************************************************************************)
(* Configuration validators.  A validator returns Ret(null), Ret(issue)    *)
(* or throws: calling a String method (match, toUpperCase, toLowerCase,    *)
(* split) on an array or on undefined raises a TypeError.  The free-text   *)
(* recommendation of an issue is carried through unexamined and is left    *)
(* out of the model.                                                       *)
(***************************************************************************)
Ret(v) == [threw |-> FALSE, value |-> v]
Issue(text, rating) == [kind |-> "issue", issue |-> text, criticalRating |-> rating]

\* value.match(/max-age=(\d+)/): the first capture group of the first match,
\* null without a match
MatchMaxAge(s) ==
  LET hit(i) == MatchesAt(s, "max-age=", i) /\ IsDigit(SubSeq(s, i + 8, i + 8))
  IN  IF \E i \in 1..Len(s) : hit(i)
      THEN LET i == CHOOSE i \in 1..Len(s) : hit(i) /\ \A j \in 1..(i - 1) : ~hit(j)
           IN  Str(TakeWhileIn(SubSeq(s, i + 8, Len(s)), Digits))
      ELSE Null

OneYear == 31536000

checkHstsMaxAgeTooShort(value) ==
  LET maxAgeMatch == MatchMaxAge(value.s)
  IN  Truthy(maxAgeMatch) /\ LessThan(ParseInt(maxAgeMatch), OneYear)

\* checkHstsConfiguration testing includeSubDomains before the length of max-age
checkHstsSubDomainsFirst(value, headers) ==
  IF ~Truthy(value) THEN Ret(Issue("HSTS header missing", "high"))
  ELSE IF ~ValueIncludes(value, "max-age=")
    THEN Ret(Issue("HSTS header missing max-age directive", "high"))
  ELSE IF ~IsStr(value) THEN TypeError
  ELSE IF ~ValueIncludes(value, "includeSubDomains")
    THEN Ret(Issue("HSTS missing includeSubDomains directive", "low"))
  ELSE IF checkHstsMaxAgeTooShort(value)
    THEN Ret(Issue("HSTS max-age is less than 1 year", "medium"))
  ELSE IF ~ValueIncludes(value, "preload")
    THEN Ret(Issue("HSTS missing preload directive", "info"))
  ELSE Ret(Null)

checkHstsConfiguration(value, headers) ==
  IF ~Truthy(value) THEN Ret(Issue("HSTS header missing", "high"))
  ELSE IF ~ValueIncludes(value, "max-age=")
    THEN Ret(Issue("HSTS header missing max-age directive", "high"))
  ELSE IF ~IsStr(value) THEN TypeError
  ELSE IF checkHstsMaxAgeTooShort(value)
    THEN Ret(Issue("HSTS max-age is less than 1 year", "medium"))
  ELSE IF ~ValueIncludes(value, "includeSubDomains")
    THEN Ret(Issue("HSTS missing includeSubDomains directive", "low"))
  ELSE IF ~ValueIncludes(value, "preload")
    THEN Ret(Issue("HSTS missing preload directive", "info"))
  ELSE Ret(Null)

\* array.map(f): the new array, every element computed once
MapSeq(a, F(_)) == SubSeq([i \in 1..Len(a) |-> F(a[i])], 1, Len(a))

SeqIncludes(a, x) == \E i \in 1..Len(a) : a[i] = x

\* the sum of a sequence of numbers, halving it so that the evaluation
\* stays shallow
RECURSIVE SumSeq(_)
SumSeq(a) ==
  IF Len(a) = 0 THEN 0
  ELSE IF Len(a) = 1 THEN a[1]
  ELSE SumSeq(SubSeq(a, 1, Len(a) \div 2)) + SumSeq(SubSeq(a, Len(a) \div 2 + 1, Len(a)))


recommendedDirectives == <<"default-src", "script-src", "style-src">>

\* checkCspConfiguration without the test of a value that is not there
checkCspWithoutMissing(value, headers) ==
  IF ~(IsStr(value) \/ IsArr(value)) THEN TypeError
  ELSE IF ValueIncludes(value, "'unsafe-inline'") \/ ValueIncludes(value, "'unsafe-eval'")
    THEN Ret(Issue("CSP contains unsafe directives", "high"))
  ELSE IF ValueIncludes(value, "*") /\ ~ValueIncludes(value, "font-src")
          /\ ~ValueIncludes(value, "img-src")
    THEN Ret(Issue("CSP contains wildcards", "medium"))
  ELSE LET absent(d) == ~ValueIncludes(value, d)
           missingDirectives == SelectSeq(recommendedDirectives, absent)
       IN  IF Len(missingDirectives) > 0
           THEN Ret(Issue("CSP missing recommended directives: "
                            \o Join(missingDirectives, ", "), "medium"))
           ELSE Ret(Null)

\* checkCspConfiguration looking for wildcards before unsafe directives
checkCspWildcardsFirst(value, headers) ==
  IF ~Truthy(value) THEN Ret(Issue("CSP header missing", "high"))
  ELSE IF ValueIncludes(value, "*") /\ ~ValueIncludes(value, "font-src")
          /\ ~ValueIncludes(value, "img-src")
    THEN Ret(Issue("CSP contains wildcards", "medium"))
  ELSE IF ValueIncludes(value, "'unsafe-inline'") \/ ValueIncludes(value, "'unsafe-eval'")
    THEN Ret(Issue("CSP contains unsafe directives", "high"))
  ELSE LET absent(d) == ~ValueIncludes(value, d)
           missingDirectives == SelectSeq(recommendedDirectives, absent)
       IN  IF Len(missingDirectives) > 0
           THEN Ret(Issue("CSP missing recommended directives: "
                            \o Join(missingDirectives, ", "), "medium"))
           ELSE Ret(Null)

checkCspConfiguration(value, headers) ==
  IF ~Truthy(value) THEN Ret(Issue("CSP header missing", "high"))
  ELSE IF ValueIncludes(value, "'unsafe-inline'") \/ ValueIncludes(value, "'unsafe-eval'")
    THEN Ret(Issue("CSP contains unsafe directives", "high"))
  ELSE IF ValueIncludes(value, "*") /\ ~ValueIncludes(value, "font-src")
          /\ ~ValueIncludes(value, "img-src")
    THEN Ret(Issue("CSP contains wildcards", "medium"))
  ELSE LET absent(d) == ~ValueIncludes(value, d)
           missingDirectives == SelectSeq(recommendedDirectives, absent)
       IN  IF Len(missingDirectives) > 0
           THEN Ret(Issue("CSP missing recommended directives: "
                            \o Join(missingDirectives, ", "), "medium"))
           ELSE Ret(Null)

checkXFrameOptionsConfiguration(value, headers) ==
  IF ~IsStr(value) THEN TypeError
  ELSE IF ToUpperCase(value.s) # "DENY" /\ ToUpperCase(value.s) # "SAMEORIGIN"
    THEN Ret(Issue("X-Frame-Options has invalid value", "medium"))
  ELSE Ret(Null)

checkXssProtectionConfiguration(value, headers) ==
  IF ~(IsStr(value) \/ IsArr(value)) THEN TypeError
  ELSE IF ~ValueIncludes(value, "1")
    THEN Ret(Issue("XSS Protection is disabled", "medium"))
  ELSE IF ~ValueIncludes(value, "mode=block")
    THEN Ret(Issue("XSS Protection is enabled but not in blocking mode", "low"))
  ELSE Ret(Null)

weakReferrerPolicies == <<"unsafe-url", "no-referrer-when-downgrade">>

checkReferrerPolicyConfiguration(value, headers) ==
  IF ~(IsStr(value) \/ IsArr(value)) THEN TypeError
  ELSE LET weak(p) == ValueIncludes(value, p)
           found == SelectSeq(weakReferrerPolicies, weak)
       IN  IF Len(found) > 0
           THEN Ret(Issue("Referrer-Policy contains weak policy: " \o found[1], "low"))
           ELSE Ret(Null)


OneDay == 86400

checkExpectCtConfiguration(value, headers) ==
  IF ~(IsStr(value) \/ IsArr(value)) THEN TypeError
  ELSE IF ~ValueIncludes(value, "max-age=")
    THEN Ret(Issue("Expect-CT header missing max-age directive", "medium"))
  ELSE IF ~ValueIncludes(value, "enforce")
    THEN Ret(Issue("Expect-CT header missing enforce directive", "low"))
  ELSE Ret(Null)

\* the try block of checkReportToConfiguration and checkNelConfiguration
\* reads properties of the parsed value: a parsed null raises a TypeError
\* there, which the catch clause turns into the invalid-JSON issue
checkReportToConfiguration(value, headers) ==
  LET parsed == JsonParse(value)
      reportConfig == parsed.val
      endpoints == GetProp(reportConfig, "endpoints")
      max_age == GetProp(reportConfig, "max_age")
  IN  IF ~parsed.ok \/ reportConfig = Null
      THEN Ret(Issue("Report-To header contains invalid JSON", "low"))
      ELSE IF ~Truthy(endpoints) \/ ~IsArr(endpoints) \/ Len(endpoints.a) = 0
        THEN Ret(Issue("Report-To header has invalid or missing endpoints", "low"))
      ELSE IF ~Truthy(max_age) \/ LessThan(max_age, OneDay)
        THEN Ret(Issue("Report-To header has short max_age or missing max_age", "info"))
      ELSE Ret(Null)

\* checkNelConfiguration with the property reads outside the try block: a
\* parsed null raises
checkNelReadingOutsideTry(value, headers) ==
  LET parsed == JsonParse(value)
      nelConfig == parsed.val
      report_to == GetProp(nelConfig, "report_to")
      max_age == GetProp(nelConfig, "max_age")
  IN  IF ~parsed.ok
      THEN Ret(Issue("NEL header contains invalid JSON", "low"))
      ELSE IF nelConfig = Null THEN TypeError
      ELSE IF ~Truthy(report_to)
        THEN Ret(Issue("NEL header missing report_to field", "low"))
      ELSE IF ~Truthy(max_age) \/ LessThan(max_age, OneDay)
        THEN Ret(Issue("NEL header has short max_age or missing max_age", "info"))
      ELSE Ret(Null)

checkNelConfiguration(value, headers) ==
  LET parsed == JsonParse(value)
      nelConfig == parsed.val
      report_to == GetProp(nelConfig, "report_to")
      max_age == GetProp(nelConfig, "max_age")
  IN  IF ~parsed.ok \/ nelConfig = Null
      THEN Ret(Issue("NEL header contains invalid JSON", "low"))
      ELSE IF ~Truthy(report_to)
        THEN Ret(Issue("NEL header missing report_to field", "low"))
      ELSE IF ~Truthy(max_age) \/ LessThan(max_age, OneDay)
        THEN Ret(Issue("NEL header has short max_age or missing max_age", "info"))
      ELSE Ret(Null)

checkClearSiteDataConfiguration(value, headers) ==
  IF JsonParse(value).ok THEN Ret(Null)
  ELSE Ret(Issue("Clear-Site-Data header contains invalid JSON", "low"))

checkCoepConfiguration(value, headers) ==
  IF value # Str("require-corp") /\ value # Str("credentialless")
  THEN Ret(Issue("Cross-Origin-Embedder-Policy has invalid value", "low"))
  ELSE Ret(Null)

checkCoopConfiguration(value, headers) ==
  IF value # Str("same-origin") /\ value # Str("same-origin-allow-popups")
     /\ value # Str("unsafe-none")
  THEN Ret(Issue("Cross-Origin-Opener-Policy has invalid value", "low"))
  ELSE Ret(Null)

checkCorpConfiguration(value, headers) ==
  IF value # Str("same-site") /\ value # Str("same-origin")
     /\ value # Str("cross-origin")
  THEN Ret(Issue("Cross-Origin-Resource-Policy has invalid value", "low"))
  ELSE Ret(Null)

\* headers[name] on the normalized header map: a sequence of <<name, value>>
\* entries with distinct names, in insertion order
HasHeader(headers, name) == \E i \in 1..Len(headers) : headers[i][1] = name

GetHeader(headers, name) ==
  IF HasHeader(headers, name)
  THEN headers[CHOOSE i \in 1..Len(headers) : headers[i][1] = name][2]
  ELSE Undefined

checkAccessControlAllowOriginConfiguration(value, headers) ==
  IF value = Str("*")
  THEN Ret(Issue("Access-Control-Allow-Origin uses wildcard (*)", "medium"))
  ELSE Ret(Null)

\* the Allow-Credentials validator comparing the value with 'true' as written
checkAllowCredentialsExactCase(value, headers) ==
  IF ~IsStr(value) THEN TypeError
  ELSE IF value.s = "true"
          /\ GetHeader(headers, "access-control-allow-origin") = Str("*")
    THEN Ret(Issue("Access-Control-Allow-Credentials is true while Allow-Origin is wildcard",
                   "high"))
  ELSE Ret(Null)

checkAccessControlAllowCredentialsConfiguration(value, headers) ==
  IF ~IsStr(value) THEN TypeError
  ELSE IF ToLowerCase(value.s) = "true"
          /\ GetHeader(headers, "access-control-allow-origin") = Str("*")
    THEN Ret(Issue("Access-Control-Allow-Credentials is true while Allow-Origin is wildcard",
                   "high"))
  ELSE Ret(Null)

sensitiveHttpMethods == <<"PUT", "DELETE", "PATCH">>

checkAccessControlAllowMethodsConfiguration(value, headers) ==
  IF ~IsStr(value) THEN TypeError
  ELSE LET upper(method) == ToUpperCase(Trim(method))
           allowedMethods == MapSeq(Split(value.s, ","), upper)
           allowed(method) == SeqIncludes(allowedMethods, method)
           allowedSensitiveMethods == SelectSeq(sensitiveHttpMethods, allowed)
       IN  IF Len(allowedSensitiveMethods) > 0
           THEN Ret(Issue("CORS allows potentially dangerous methods: "
                            \o Join(allowedSensitiveMethods, ", "), "low"))
           ELSE Ret(Null)

checkAccessControlAllowHeadersConfiguration(value, headers) ==
  IF value = Str("*")
  THEN Ret(Issue("Access-Control-Allow-Headers uses wildcard (*)", "low"))
  ELSE Ret(Null)

potentiallySensitiveHeaders == <<"Authorization", "X-API-Key", "X-Auth-Token", "Set-Cookie">>

checkAccessControlExposeHeadersConfiguration(value, headers) ==
  IF ~IsStr(value) THEN TypeError
  ELSE LET lower(header) == ToLowerCase(Trim(header))
           exposedHeaders == MapSeq(Split(value.s, ","), lower)
           exposed(header) == SeqIncludes(exposedHeaders, ToLowerCase(header))
           exposedSensitiveHeaders == SelectSeq(potentiallySensitiveHeaders, exposed)
       IN  IF Len(exposedSensitiveHeaders) > 0
           THEN Ret(Issue("Exposing potentially sensitive headers: "
                            \o Join(exposedSensitiveHeaders, ", "), "medium"))
           ELSE Ret(Null)

checkAccessControlMaxAgeConfiguration(value, headers) ==
  IF ~(IsStr(value) \/ IsArr(value)) THEN TypeError
  ELSE IF GreaterThan(ParseInt(value), OneDay)
    THEN Ret(Issue("Access-Control-Max-Age is excessively long", "info"))
  ELSE Ret(Null)


(***************************************************************************)
(* Cookies (src/headers/cookies.js)                                        *)
(***************************************************************************)
\* the Set-Cookie values of an array collapsed into one text, as a header
\* that is repeated is joined
CookieListCollapsed(value) == IF IsArr(value) THEN <<Join(value.a, ", ")>> ELSE <<value.s>>

\* Array.isArray(value) ? value : [value]
CookieList(value) == IF IsArr(value) THEN value.a ELSE <<value.s>>

\* cookie.split('=')[0].trim()
CookieName(cookie) == Trim(Split(cookie, "=")[1])

sensitiveKeywords == <<"auth", "session", "token", "key", "secret", "password", "credential">>

\* the issues checkSetCookieConfiguration pushes for one cookie, in order
SetCookieIssues(cookie) ==
  LET cookieName == CookieName(cookie)
      q == "Cookie \"" \o cookieName \o "\""
      missing(a) == ~Includes(cookie, a)
      missingAttributes == SelectSeq(<<"Secure", "HttpOnly", "SameSite">>, missing)
      sensitive == \E i \in 1..Len(sensitiveKeywords) :
                     Includes(ToLowerCase(cookieName), sensitiveKeywords[i])
  IN  (IF ~Includes(cookie, "Secure")
       THEN <<Issue(q \o " missing Secure attribute", "high")>> ELSE <<>>)
   \o (IF ~Includes(cookie, "HttpOnly")
       THEN <<Issue(q \o " missing HttpOnly attribute", "high")>> ELSE <<>>)
   \o (IF ~Includes(cookie, "SameSite")
       THEN <<Issue(q \o " missing SameSite attribute", "medium")>>
       ELSE IF Includes(cookie, "SameSite=None") /\ ~Includes(cookie, "Secure")
       THEN <<Issue(q \o " has SameSite=None without Secure attribute", "high")>>
       ELSE <<>>)
   \o (IF ~Includes(cookie, "Max-Age") /\ ~Includes(cookie, "Expires")
       THEN <<Issue(q \o " missing expiration (Max-Age or Expires)", "low")>> ELSE <<>>)
   \o (IF ~Includes(cookie, "Path=")
       THEN <<Issue(q \o " missing Path attribute", "low")>>
       ELSE IF Includes(cookie, "Path=/")
       THEN <<Issue(q \o " uses broad Path=/ scope", "info")>>
       ELSE <<>>)
   \o (IF sensitive /\ Len(missingAttributes) > 0
       THEN <<Issue("Potentially sensitive cookie \"" \o cookieName
                      \o "\" missing critical attributes: "
                      \o Join(missingAttributes, ", "), "high")>>
       ELSE <<>>)

\* array.flat() of an array of arrays, halving it
RECURSIVE Flatten(_)
Flatten(a) ==
  IF Len(a) = 0 THEN <<>>
  ELSE IF Len(a) = 1 THEN a[1]
  ELSE Flatten(SubSeq(a, 1, Len(a) \div 2)) \o Flatten(SubSeq(a, Len(a) \div 2 + 1, Len(a)))

AllSetCookieIssues(cookies) == Flatten(MapSeq(cookies, SetCookieIssues))

checkSetCookieConfiguration(value, headers) ==
  IF ~(IsStr(value) \/ IsArr(value)) THEN TypeError
  ELSE LET issues == AllSetCookieIssues(CookieList(value))
       IN  IF Len(issues) > 0 THEN Ret(issues[1]) ELSE Ret(Null)

\* /SameSite=(Strict|Lax|None)/i.exec(cookie)?.[1]?.toLowerCase(): the
\* alternative matched at the first position where one matches, lowercased
SameSiteMatch(cookie) ==
  LET c == ToLowerCase(cookie)
      alts == <<"strict", "lax", "none">>
      hit(i) == \E k \in 1..3 : MatchesAt(c, "samesite=" \o alts[k], i)
  IN  IF \E i \in 1..Len(c) : hit(i)
      THEN LET i == CHOOSE i \in 1..Len(c) : hit(i) /\ \A j \in 1..(i - 1) : ~hit(j)
           IN  Str(alts[CHOOSE k \in 1..3 : MatchesAt(c, "samesite=" \o alts[k], i)])
      ELSE Undefined

CookieIssue(type, description, rating) ==
  [type |-> type, description |-> description, criticalRating |-> rating]

\* cookieAnalyzer without its check of the HttpOnly attribute
CookieIssuesWithoutHttpOnly(cookie) ==
  LET secure == Includes(cookie, "Secure")
      sameSite == Truthy(SameSiteMatch(cookie))
      sameSiteValue == IF sameSite THEN SameSiteMatch(cookie).s ELSE "none"
  IN  (IF ~secure
       THEN <<CookieIssue("missing_secure", "Missing Secure attribute", "high")>>
       ELSE <<>>)
   \o (IF ~sameSite
       THEN <<CookieIssue("missing_samesite", "Missing SameSite attribute", "medium")>>
       ELSE IF sameSiteValue = "none" /\ ~secure
       THEN <<CookieIssue("samesite_none_without_secure",
                          "Using SameSite=None without Secure attribute", "high")>>
       ELSE <<>>)

\* one iteration of the loop of cookieAnalyzer: the issues of one cookie
CookieIssuesOf(cookie) ==
  LET secure == Includes(cookie, "Secure")
      httpOnly == Includes(cookie, "HttpOnly")
      sameSite == Truthy(SameSiteMatch(cookie))
      sameSiteValue == IF sameSite THEN SameSiteMatch(cookie).s ELSE "none"
  IN  (IF ~secure
       THEN <<CookieIssue("missing_secure", "Missing Secure attribute", "high")>>
       ELSE <<>>)
   \o (IF ~httpOnly
       THEN <<CookieIssue("missing_httponly", "Missing HttpOnly attribute", "high")>>
       ELSE <<>>)
   \o (IF ~sameSite
       THEN <<CookieIssue("missing_samesite", "Missing SameSite attribute", "medium")>>
       ELSE IF sameSiteValue = "none" /\ ~secure
       THEN <<CookieIssue("samesite_none_without_secure",
                          "Using SameSite=None without Secure attribute", "high")>>
       ELSE <<>>)

\* the scoreAdjustment one cookie issue subtracts in cookieAnalyzer
CookieIssueAdjustment(issue) == IF issue.type = "missing_samesite" THEN 1 ELSE 2

CookieFinding(cookie) ==
  [header |-> "Cookie Security", status |-> "misconfigured",
   cookie |-> CookieName(cookie), value |-> Str(cookie),
   issues |-> CookieIssuesOf(cookie), criticalRating |-> "high"]

CookieFindings(cookies) ==
  LET flawed(cookie) == Len(CookieIssuesOf(cookie)) > 0
  IN  MapSeq(SelectSeq(cookies, flawed), CookieFinding)

cookieAnalyzer(setCookieValues) ==
  LET cookies == CookieList(setCookieValues)
      findings == CookieFindings(cookies)
      adj(f) == SumSeq(MapSeq(f.issues, CookieIssueAdjustment))
  IN  [findings |-> findings,
       scoreAdjustment |-> 0 - SumSeq(MapSeq(findings, adj))]


(***************************************************************************)
(* Information disclosure (src/headers/disclosure.js)                      *)
(***************************************************************************)
DInfo(key, name, description, rating) ==
  [key |-> key, name |-> name, description |-> description, criticalRating |-> rating]

\* the table of checkDangerousHeaders, in the order of its entries
dangerousHeaders == <<
  DInfo("server", "Server",
        "Reveals server software version", "low"),
  DInfo("x-powered-by", "X-Powered-By",
        "Reveals technology stack information", "low"),
  DInfo("x-aspnet-version", "X-AspNet-Version",
        "Reveals ASP.NET version", "medium"),
  DInfo("x-aspnetmvc-version", "X-AspNetMvc-Version",
        "Reveals ASP.NET MVC version", "medium"),
  DInfo("x-generator", "X-Generator",
        "Reveals the platform or CMS used", "low"),
  DInfo("x-drupal-cache", "X-Drupal-Cache",
        "Reveals Drupal as the CMS", "low"),
  DInfo("x-drupal-dynamic-cache", "X-Drupal-Dynamic-Cache",
        "Reveals Drupal as the CMS", "low"),
  DInfo("x-wordpress-cache", "X-WordPress-Cache",
        "Reveals WordPress as the CMS", "low"),
  DInfo("x-wp-nonce", "X-WP-Nonce",
        "Reveals WordPress as the CMS", "low"),
  DInfo("x-pingback", "X-Pingback",
        "Often indicates WordPress and provides an XML-RPC endpoint", "low"),
  DInfo("laravel_session", "laravel_session",
        "Reveals Laravel as the framework", "low"),
  DInfo("phpbb-data", "phpbb-data",
        "Reveals phpBB as the forum software", "low"),
  DInfo("joomla_user_state", "joomla_user_state",
        "Reveals Joomla as the CMS", "low"),
  DInfo("x-varnish", "X-Varnish",
        "Reveals Varnish Cache is in use", "info"),
  DInfo("via", "Via",
        "May reveal proxy information", "info"),
  DInfo("x-cache", "X-Cache",
        "Reveals caching infrastructure details", "info"),
  DInfo("x-runtime", "X-Runtime",
        "Reveals application runtime information", "low"),
  DInfo("x-debug-token", "X-Debug-Token",
        "Debug information from Symfony framework", "medium"),
  DInfo("x-debug-token-link", "X-Debug-Token-Link",
        "Debug information from Symfony framework", "medium") >>

\* the version test asking for three numbers: N.N.N
versionHeaderThreeNumbers(v) ==
  LET t == JsString(v)
  IN  \E i \in 1..(Len(t) - 4) :
        /\ IsDigit(SubSeq(t, i, i))
        /\ SubSeq(t, i + 1, i + 1) = "."
        /\ IsDigit(SubSeq(t, i + 2, i + 2))
        /\ SubSeq(t, i + 3, i + 3) = "."
        /\ IsDigit(SubSeq(t, i + 4, i + 4))

\* /[0-9]+\.[0-9]+(\.[0-9]+)?/.test(v): a digit, a dot and a digit in a row
versionHeaderRegex(v) ==
  LET t == JsString(v)
  IN  \E i \in 1..(Len(t) - 2) :
        /\ IsDigit(SubSeq(t, i, i))
        /\ SubSeq(t, i + 1, i + 1) = "."
        /\ IsDigit(SubSeq(t, i + 2, i + 2))

DangerousFinding(name, value, description, rating) ==
  [header |-> name, status |-> "dangerous", value |-> value,
   description |-> description, criticalRating |-> rating]

\* the switch of checkDangerousHeaders on info.criticalRating
DisclosureAdjustment(finding) ==
  CASE finding.criticalRating = "high" -> 3
    [] finding.criticalRating = "medium" -> 2
    [] finding.criticalRating = "low" -> 1
    [] OTHER -> 0

checkDangerousHeaders(headers) ==
  LET present(info) == Truthy(GetHeader(headers, info.key))
      finding(info) == DangerousFinding(info.name, GetHeader(headers, info.key),
                                        info.description, info.criticalRating)
      versioned(key) == Truthy(GetHeader(headers, key))
                          /\ versionHeaderRegex(GetHeader(headers, key))
      findings ==
        MapSeq(SelectSeq(dangerousHeaders, present), finding)
        \o (IF versioned("server")
            THEN <<DangerousFinding("Server", GetHeader(headers, "server"),
                     "Server header contains version information", "medium")>>
            ELSE <<>>)
        \o (IF versioned("x-powered-by")
            THEN <<DangerousFinding("X-Powered-By", GetHeader(headers, "x-powered-by"),
                     "X-Powered-By header contains version information", "medium")>>
            ELSE <<>>)
  IN  [findings |-> findings,
       scoreAdjustment |-> 0 - SumSeq(MapSeq(findings, DisclosureAdjustment))]


(***************************************************************************)
(* Configuration (src/config.js) and the rule registry (src/headers)       *)
(*                                                                         *)
(* Units: header weights are whole points, as in the source.  Earned       *)
(* points and penalties are counted in tenths of a point (0.5 is 5), and   *)
(* a penalty multiplier in tenths (0.8 is 8), so that every quantity of    *)
(* the scoring arithmetic is an exact integer.                             *)
(***************************************************************************)
Tenths == 10

\* obj[key] for a table kept as a sequence of <<key, value>> entries
HasKey(table, key) == \E i \in 1..Len(table) : table[i][1] = key
Lookup(table, key) == table[CHOOSE i \in 1..Len(table) : table[i][1] = key][2]

\* the config object: weights in points, multipliers and penalties in tenths
DefaultConfig == [
  essentialHeaderWeights |-> <<
    <<"strict-transport-security", 15>>, <<"content-security-policy", 15>>,
    <<"x-content-type-options", 10>>, <<"x-frame-options", 10>>,
    <<"referrer-policy", 8>>, <<"permissions-policy", 7>>,
    <<"x-xss-protection", 5>>, <<"cache-control", 5>> >>,
  advancedHeaderWeights |-> <<
    <<"expect-ct", 5>>, <<"cross-origin-embedder-policy", 4>>,
    <<"cross-origin-opener-policy", 4>>, <<"cross-origin-resource-policy", 4>>,
    <<"report-to", 2>>, <<"nel", 2>>, <<"clear-site-data", 2>>,
    <<"server-timing", 2>> >>,
  corsHeaderWeights |-> <<
    <<"access-control-allow-origin", 5>>, <<"access-control-allow-credentials", 4>>,
    <<"access-control-allow-methods", 2>>, <<"access-control-allow-headers", 2>>,
    <<"access-control-expose-headers", 1>>, <<"access-control-max-age", 1>> >>,
  misconfigurationPenalties |-> <<
    <<"high", 8>>, <<"medium", 6>>, <<"low", 3>>, <<"info", 1>> >>,
  dangerousHeaderPenalties |-> <<
    <<"high", 40>>, <<"medium", 20>>, <<"low", 10>>, <<"info", 5>> >>,
  cookieSecurityPenalties |-> <<
    <<"high", 40>>, <<"medium", 20>>, <<"low", 10>>, <<"info", 5>> >>,
  maxDangerousHeadersPenalty |-> 100,
  maxCookieSecurityPenalty |-> 100,
  scoringThresholds |-> [A |-> 90, B |-> 80, C |-> 70, D |-> 60, E |-> 50, F |-> 0] ]

\* a rule of the registry; checkConfiguration names the validator, "none"
\* for a rule without one
Rule(key, name, rating, validator) ==
  [key |-> key, name |-> name, criticalRating |-> rating,
   checkConfiguration |-> validator]

essentialHeaders == <<
  Rule("strict-transport-security", "Strict-Transport-Security (HSTS)", "high",
       "checkHstsConfiguration"),
  Rule("content-security-policy", "Content-Security-Policy (CSP)", "high",
       "checkCspConfiguration"),
  Rule("x-content-type-options", "X-Content-Type-Options", "medium", "none"),
  Rule("x-frame-options", "X-Frame-Options", "medium",
       "checkXFrameOptionsConfiguration"),
  Rule("x-xss-protection", "X-XSS-Protection", "low",
       "checkXssProtectionConfiguration"),
  Rule("referrer-policy", "Referrer-Policy", "low",
       "checkReferrerPolicyConfiguration"),
  Rule("permissions-policy", "Permissions-Policy", "low", "none"),
  Rule("cache-control", "Cache-Control", "low", "none") >>

advancedHeaders == <<
  Rule("expect-ct", "Expect-CT", "medium", "checkExpectCtConfiguration"),
  Rule("report-to", "Report-To", "low", "checkReportToConfiguration"),
  Rule("nel", "NEL (Network Error Logging)", "low", "checkNelConfiguration"),
  Rule("clear-site-data", "Clear-Site-Data", "info",
       "checkClearSiteDataConfiguration"),
  Rule("cross-origin-embedder-policy", "Cross-Origin-Embedder-Policy", "low",
       "checkCoepConfiguration"),
  Rule("cross-origin-opener-policy", "Cross-Origin-Opener-Policy", "low",
       "checkCoopConfiguration"),
  Rule("cross-origin-resource-policy", "Cross-Origin-Resource-Policy", "low",
       "checkCorpConfiguration"),
  Rule("server-timing", "Server-Timing", "info", "none") >>

corsHeaders == <<
  Rule("access-control-allow-origin", "Access-Control-Allow-Origin", "medium",
       "checkAccessControlAllowOriginConfiguration"),
  Rule("access-control-allow-credentials", "Access-Control-Allow-Credentials",
       "medium", "checkAccessControlAllowCredentialsConfiguration"),
  Rule("access-control-allow-methods", "Access-Control-Allow-Methods", "low",
       "checkAccessControlAllowMethodsConfiguration"),
  Rule("access-control-allow-headers", "Access-Control-Allow-Headers", "low",
       "checkAccessControlAllowHeadersConfiguration"),
  Rule("access-control-expose-headers", "Access-Control-Expose-Headers", "low",
       "checkAccessControlExposeHeadersConfiguration"),
  Rule("access-control-max-age", "Access-Control-Max-Age", "info",
       "checkAccessControlMaxAgeConfiguration") >>

setCookieHeader == <<
  Rule("set-cookie", "Set-Cookie", "high", "checkSetCookieConfiguration") >>

\* the exports of the five header modules: the rule tables, and the names
\* of the analyzer functions the cookies and disclosure modules export
DefaultHeaderModules == [
  essential |-> essentialHeaders,
  advanced |-> advancedHeaders,
  cors |-> corsHeaders,
  cookies |-> setCookieHeader \o <<[key |-> "cookieAnalyzer", fn |-> "cookieAnalyzer"]>>,
  disclosure |-> <<[key |-> "dangerousHeaders", fn |-> "checkDangerousHeaders"]>> ]

\* info.checkConfiguration(value, headers)
CallValidator(validator, value, headers) ==
  CASE validator = "checkHstsConfiguration" -> checkHstsConfiguration(value, headers)
    [] validator = "checkCspConfiguration" -> checkCspConfiguration(value, headers)
    [] validator = "checkXFrameOptionsConfiguration" ->
         checkXFrameOptionsConfiguration(value, headers)
    [] validator = "checkXssProtectionConfiguration" ->
         checkXssProtectionConfiguration(value, headers)
    [] validator = "checkReferrerPolicyConfiguration" ->
         checkReferrerPolicyConfiguration(value, headers)
    [] validator = "checkExpectCtConfiguration" -> checkExpectCtConfiguration(value, headers)
    [] validator = "checkReportToConfiguration" -> checkReportToConfiguration(value, headers)
    [] validator = "checkNelConfiguration" -> checkNelConfiguration(value, headers)
    [] validator = "checkClearSiteDataConfiguration" ->
         checkClearSiteDataConfiguration(value, headers)
    [] validator = "checkCoepConfiguration" -> checkCoepConfiguration(value, headers)
    [] validator = "checkCoopConfiguration" -> checkCoopConfiguration(value, headers)
    [] validator = "checkCorpConfiguration" -> checkCorpConfiguration(value, headers)
    [] validator = "checkAccessControlAllowOriginConfiguration" ->
         checkAccessControlAllowOriginConfiguration(value, headers)
    [] validator = "checkAccessControlAllowCredentialsConfiguration" ->
         checkAccessControlAllowCredentialsConfiguration(value, headers)
    [] validator = "checkAccessControlAllowMethodsConfiguration" ->
         checkAccessControlAllowMethodsConfiguration(value, headers)
    [] validator = "checkAccessControlAllowHeadersConfiguration" ->
         checkAccessControlAllowHeadersConfiguration(value, headers)
    [] validator = "checkAccessControlExposeHeadersConfiguration" ->
         checkAccessControlExposeHeadersConfiguration(value, headers)
    [] validator = "checkAccessControlMaxAgeConfiguration" ->
         checkAccessControlMaxAgeConfiguration(value, headers)
    [] validator = "checkSetCookieConfiguration" ->
         checkSetCookieConfiguration(value, headers)


(***************************************************************************)
(* SecurityHeaderChecker (src/core/scanner.js)                             *)
(***************************************************************************)
\* obj[key] = value on an object kept as a sequence of entries: an existing
\* key keeps its position, a new key is appended
Put(obj, key, value) ==
  IF HasKey(obj, key)
  THEN [i \in 1..Len(obj) |-> IF obj[i][1] = key THEN <<key, value>> ELSE obj[i]]
  ELSE Append(obj, <<key, value>>)

\* the first loop of analyzeHeaders without key.toLowerCase()
NormalizeHeadersKeepingCase(headers) ==
  LET n == Len(headers)
      name(e) == e[1]
      key == MapSeq(headers, name)
      first(i) == \A j \in 1..(i - 1) : key[j] # key[i]
      firsts == SelectSeq([i \in 1..n |-> i], first)
      last(i) == CHOOSE j \in i..n :
                   key[j] = key[i] /\ \A k \in (j + 1)..n : key[k] # key[i]
      entry(i) == <<key[i], headers[last(i)][2]>>
  IN  MapSeq(firsts, entry)

\* the first loop of analyzeHeaders, normalizedHeaders[key.toLowerCase()] =
\* value for every entry in order: a lowercase name takes the position of
\* its first entry and the value of its last
NormalizeHeaders(headers) ==
  LET n == Len(headers)
      lower(e) == ToLowerCase(e[1])
      key == MapSeq(headers, lower)
      first(i) == \A j \in 1..(i - 1) : key[j] # key[i]
      firsts == SelectSeq([i \in 1..n |-> i], first)
      last(i) == CHOOSE j \in i..n :
                   key[j] = key[i] /\ \A k \in (j + 1)..n : key[k] # key[i]
      entry(i) == <<key[i], headers[last(i)][2]>>
  IN  MapSeq(firsts, entry)

\* Object.values(weights).reduce((a, b) => a + b, 0) || fallback
SumWeights(weights) ==
  LET weight(e) == e[2]
  IN  SumSeq(MapSeq(weights, weight))

TotalPoints(weights, fallback) ==
  IF SumWeights(weights) # 0 THEN SumWeights(weights) ELSE fallback

\* the weight and the category analyzeHeaders assigns to a header
HeaderWeight(cfg, header) ==
  IF HasKey(cfg.essentialHeaderWeights, header)
    THEN [weight |-> Lookup(cfg.essentialHeaderWeights, header), category |-> "essential"]
  ELSE IF HasKey(cfg.advancedHeaderWeights, header)
    THEN [weight |-> Lookup(cfg.advancedHeaderWeights, header), category |-> "advanced"]
  ELSE IF HasKey(cfg.corsHeaderWeights, header)
    THEN [weight |-> Lookup(cfg.corsHeaderWeights, header), category |-> "cors"]
  ELSE [weight |-> 5, category |-> "other"]

\* the multiplier read as a percentage of the weight
PenaltyMultiplierPercent(cfg, rating) ==
  IF HasKey(cfg.misconfigurationPenalties, rating)
     /\ Lookup(cfg.misconfigurationPenalties, rating) # 0
  THEN Lookup(cfg.misconfigurationPenalties, rating) * Tenths ELSE 5 * Tenths

\* a multiplier above one, whatever the rating: 1.2 in tenths
PenaltyMultiplierAboveOne(cfg, rating) == Tenths + 2

\* config.misconfigurationPenalties?.[rating] || 0.5, in tenths
PenaltyMultiplier(cfg, rating) ==
  IF HasKey(cfg.misconfigurationPenalties, rating)
     /\ Lookup(cfg.misconfigurationPenalties, rating) # 0
  THEN Lookup(cfg.misconfigurationPenalties, rating) ELSE 5

\* the severity of a misconfigured finding taken from its rule alone
IssueRatingOfRule(configIssue, info) == info.criticalRating

\* configIssue.criticalRating || info.criticalRating
IssueRating(configIssue, info) ==
  IF configIssue.criticalRating # "" THEN configIssue.criticalRating
  ELSE info.criticalRating

\* the finding pushed for a header that is present with the value value,
\* its validator having returned configIssue; the exception if it threw
PresentHeader(cfg, info, w, value, configIssue) ==
  IF configIssue.threw THEN configIssue
  ELSE IF Truthy(configIssue.value)
  THEN Ret([header |-> info.name, status |-> "misconfigured",
            value |-> value, issue |-> configIssue.value.issue,
            criticalRating |-> IssueRating(configIssue.value, info),
            category |-> w.category, weight |-> w.weight,
            pointsEarned |->
              w.weight * Tenths
              - w.weight * PenaltyMultiplier(cfg, IssueRating(configIssue.value, info))])
  ELSE Ret([header |-> info.name, status |-> "present", value |-> value,
            criticalRating |-> info.criticalRating, category |-> w.category,
            weight |-> w.weight, pointsEarned |-> w.weight * Tenths])

\* the finding pushed for the rule info of weight and category w, value
\* being normalizedHeaders[header]
WeighedHeader(cfg, info, normalizedHeaders, w, value) ==
  IF ~Truthy(value)
  THEN Ret([header |-> info.name, status |-> "missing",
            criticalRating |-> info.criticalRating,
            category |-> w.category, weight |-> w.weight])
  ELSE PresentHeader(cfg, info, w, value,
                     IF info.checkConfiguration # "none"
                     THEN CallValidator(info.checkConfiguration, value, normalizedHeaders)
                     ELSE Ret(Null))

\* one iteration of the loop over this.securityHeaders: the finding pushed
\* for the rule info, or the exception its validator raises
CheckHeader(cfg, info, normalizedHeaders) ==
  WeighedHeader(cfg, info, normalizedHeaders, HeaderWeight(cfg, info.key),
                GetHeader(normalizedHeaders, info.key))

\* the rules the loop does not skip
CheckedRules(securityHeaders) ==
  LET checked(info) == info.key # "cookieAnalyzer" /\ info.key # "dangerousHeaders"
  IN  SelectSeq(securityHeaders, checked)

\* the earned total of a category counting the rules of no category too
EarnedPointsCountingOther(findings, category) ==
  LET points(finding) ==
        IF finding.category \in {category, "other"} /\ finding.status # "missing"
        THEN finding.pointsEarned ELSE 0
  IN  SumSeq(MapSeq(findings, points))

\* the points the loop adds to the earned total of a category, in tenths
EarnedPoints(findings, category) ==
  LET points(finding) ==
        IF finding.category = category /\ finding.status # "missing"
        THEN finding.pointsEarned ELSE 0
  IN  SumSeq(MapSeq(findings, points))

\* the penalty one rating adds: the config table when it has a truthy
\* entry, else defaultPenalties[rating] || 1; in tenths
defaultPenalties == << <<"high", 40>>, <<"medium", 20>>, <<"low", 10>>, <<"info", 5>> >>

RatingPenalty(table, rating) ==
  IF rating # "" /\ HasKey(table, rating) /\ Lookup(table, rating) # 0
  THEN Lookup(table, rating)
  ELSE IF HasKey(defaultPenalties, rating) THEN Lookup(defaultPenalties, rating)
  ELSE 1 * Tenths

Min(a, b) == IF a < b THEN a ELSE b
Max(a, b) == IF a > b THEN a ELSE b

\* config.maxDangerousHeadersPenalty || 10
CapOr10(cap) == IF cap # 0 THEN cap ELSE 10 * Tenths

\* the dangerous header penalty without Math.min(dangerousPenalty, maxPenalty)
DangerousPenaltyUncapped(cfg, dangerousFindings) ==
  LET penalty(finding) == RatingPenalty(cfg.dangerousHeaderPenalties, finding.criticalRating)
  IN  SumSeq(MapSeq(dangerousFindings, penalty))

DangerousPenalty(cfg, dangerousFindings) ==
  LET penalty(finding) == RatingPenalty(cfg.dangerousHeaderPenalties, finding.criticalRating)
  IN  IF Len(dangerousFindings) > 0
      THEN Min(SumSeq(MapSeq(dangerousFindings, penalty)),
               CapOr10(cfg.maxDangerousHeadersPenalty))
      ELSE 0

\* every cookie finding carries an issues list; each issue adds its penalty
CookiePenalty(cfg, cookieFindings) ==
  LET issuePenalty(issue) == RatingPenalty(cfg.cookieSecurityPenalties, issue.criticalRating)
      penalty(finding) == SumSeq(MapSeq(finding.issues, issuePenalty))
  IN  IF Len(cookieFindings) > 0
      THEN Min(SumSeq(MapSeq(cookieFindings, penalty)),
               CapOr10(cfg.maxCookieSecurityPenalty))
      ELSE 0

essentialContribution == 60
advancedContribution == 25
corsContribution == 15

\* the category percentage taken out of 100 points instead of out of the
\* total of the category
WeightedOutOfHundred(earned, total, contribution) ==
  [num |-> earned * contribution, den |-> 100]

\* earned / total * contribution as an exact fraction num / den counting
\* tenths of a point, 0 when the total is not positive
Weighted(earned, total, contribution) ==
  IF total > 0 THEN [num |-> earned * contribution, den |-> total]
  ELSE [num |-> 0, den |-> 1]

\* one category of scoreBreakdown
CategoryScore(earned, total, contribution) ==
  [earned |-> earned, total |-> total,
   weighted |-> Weighted(earned, total, contribution)]

\* Math.round of the fraction num / den, den > 0: the nearest integer, a
\* tie going up
Round(num, den) == (2 * num + den) \div (2 * den)

\* the sum of score terms leaving the cookie penalty out
RawScoreWithoutCookies(e, a, c, dangerousPenalty, cookiePenalty) ==
  [num |-> e.num * a.den * c.den + a.num * e.den * c.den + c.num * e.den * a.den
           - dangerousPenalty * e.den * a.den * c.den,
   den |-> e.den * a.den * c.den]

\* essentialScore + advancedScore + corsScore - dangerousPenalty - cookiePenalty
\* as one fraction counting tenths of a point
RawScore(e, a, c, dangerousPenalty, cookiePenalty) ==
  [num |-> e.num * a.den * c.den + a.num * e.den * c.den + c.num * e.den * a.den
           - (dangerousPenalty + cookiePenalty) * e.den * a.den * c.den,
   den |-> e.den * a.den * c.den]

\* Math.round(score) without the clamp
FinalScoreUnclamped(raw) == Round(raw.num, raw.den * Tenths)

\* Math.max(0, Math.min(100, Math.round(score)))
FinalScore(raw) == Max(0, Min(100, Round(raw.num, raw.den * Tenths)))

\* calculateGrade asking for more than the threshold
calculateGradeAbove(cfg, score) ==
  IF score > cfg.scoringThresholds.A THEN "A"
  ELSE IF score > cfg.scoringThresholds.B THEN "B"
  ELSE IF score > cfg.scoringThresholds.C THEN "C"
  ELSE IF score > cfg.scoringThresholds.D THEN "D"
  ELSE IF score > cfg.scoringThresholds.E THEN "E"
  ELSE "F"

calculateGrade(cfg, score) ==
  IF score >= cfg.scoringThresholds.A THEN "A"
  ELSE IF score >= cfg.scoringThresholds.B THEN "B"
  ELSE IF score >= cfg.scoringThresholds.C THEN "C"
  ELSE IF score >= cfg.scoringThresholds.D THEN "D"
  ELSE IF score >= cfg.scoringThresholds.E THEN "E"
  ELSE "F"

\* this.analyzers.dangerousHeaders(normalizedHeaders) / cookieAnalyzer(value)
CallAnalyzer(fn, arg) ==
  CASE fn = "checkDangerousHeaders" -> checkDangerousHeaders(arg)
    [] fn = "cookieAnalyzer" -> cookieAnalyzer(arg)

\* the disclosure analyzer also reporting every header named x-... that its
\* table does not hold
DangerousFindingsAndExtensions(this, normalizedHeaders) ==
  LET extension(e) ==
        StartsWith(e[1], "x-") /\ \A i \in 1..Len(dangerousHeaders) : dangerousHeaders[i].key # e[1]
      finding(e) == DangerousFinding(e[1], e[2], "Non-standard header", "info")
  IN  IF HasKey(this.analyzers, "dangerousHeaders")
      THEN CallAnalyzer(Lookup(this.analyzers, "dangerousHeaders"),
                        normalizedHeaders).findings
           \o MapSeq(SelectSeq(normalizedHeaders, extension), finding)
      ELSE <<>>

\* the findings the dangerousHeaders analyzer adds
DangerousFindings(this, normalizedHeaders) ==
  IF HasKey(this.analyzers, "dangerousHeaders")
  THEN CallAnalyzer(Lookup(this.analyzers, "dangerousHeaders"),
                    normalizedHeaders).findings
  ELSE <<>>

\* the findings the cookie analyzer adds: it runs on a truthy Set-Cookie
AnalyzerCookieFindings(this, normalizedHeaders) ==
  IF HasKey(this.analyzers, "cookieAnalyzer")
     /\ Truthy(GetHeader(normalizedHeaders, "set-cookie"))
  THEN CallAnalyzer(Lookup(this.analyzers, "cookieAnalyzer"),
                    GetHeader(normalizedHeaders, "set-cookie")).findings
  ELSE <<>>

\* the scoreBreakdown of a result
ScoreBreakdown(cfg, ruleFindings, dangerousFindings, cookieFindings) ==
  [essential |-> CategoryScore(EarnedPoints(ruleFindings, "essential"),
                   TotalPoints(cfg.essentialHeaderWeights, 60), essentialContribution),
   advanced |-> CategoryScore(EarnedPoints(ruleFindings, "advanced"),
                  TotalPoints(cfg.advancedHeaderWeights, 25), advancedContribution),
   cors |-> CategoryScore(EarnedPoints(ruleFindings, "cors"),
              TotalPoints(cfg.corsHeaderWeights, 15), corsContribution),
   penalties |-> [dangerous |-> DangerousPenalty(cfg, dangerousFindings),
                  cookies |-> CookiePenalty(cfg, cookieFindings)]]

\* the score left at its initial 100, less the penalties
ScoreStartsAtHundred(breakdown) ==
  Max(0, Min(100, 100 - (breakdown.penalties.dangerous
                         + breakdown.penalties.cookies) \div Tenths))

\* the score of a breakdown
ScoreOf(breakdown) ==
  FinalScore(RawScore(breakdown.essential.weighted, breakdown.advanced.weighted,
                      breakdown.cors.weighted, breakdown.penalties.dangerous,
                      breakdown.penalties.cookies))

\* the object analyzeHeaders returns
ScanResult(cfg, now, url, statusCode, normalizedHeaders, findings, breakdown) ==
  [url |-> url, statusCode |-> statusCode, timestamp |-> now,
   headers |-> normalizedHeaders, findings |-> findings,
   score |-> ScoreOf(breakdown), grade |-> calculateGrade(cfg, ScoreOf(breakdown)),
   scoreBreakdown |-> breakdown]

\* analyzeHeaders adding its score log to the result of a verbose checker
AfterRulesLogging(this, cfg, now, url, statusCode, normalizedHeaders, outcomes) ==
  IF \E i \in 1..Len(outcomes) : outcomes[i].threw
  THEN outcomes[CHOOSE i \in 1..Len(outcomes) :
                  outcomes[i].threw /\ \A j \in 1..(i - 1) : ~outcomes[j].threw]
  ELSE Ret(ScanResult(cfg, now, url, statusCode, normalizedHeaders,
             [i \in 1..Len(outcomes) |-> outcomes[i].value]
               \o DangerousFindings(this, normalizedHeaders)
               \o AnalyzerCookieFindings(this, normalizedHeaders)
               \o (IF this.verbose THEN <<[header |-> "Score Log", status |-> "info"]>>
                   ELSE <<>>),
             ScoreBreakdown(cfg, [i \in 1..Len(outcomes) |-> outcomes[i].value],
                            DangerousFindings(this, normalizedHeaders),
                            AnalyzerCookieFindings(this, normalizedHeaders))))

\* analyzeHeaders after its loop over the rules, outcomes being what the
\* iterations pushed or threw: the first exception ends the call
AfterRules(this, cfg, now, url, statusCode, normalizedHeaders, outcomes) ==
  IF \E i \in 1..Len(outcomes) : outcomes[i].threw
  THEN outcomes[CHOOSE i \in 1..Len(outcomes) :
                  outcomes[i].threw /\ \A j \in 1..(i - 1) : ~outcomes[j].threw]
  ELSE Ret(ScanResult(cfg, now, url, statusCode, normalizedHeaders,
             [i \in 1..Len(outcomes) |-> outcomes[i].value]
               \o DangerousFindings(this, normalizedHeaders)
               \o AnalyzerCookieFindings(this, normalizedHeaders),
             ScoreBreakdown(cfg, [i \in 1..Len(outcomes) |-> outcomes[i].value],
                            DangerousFindings(this, normalizedHeaders),
                            AnalyzerCookieFindings(this, normalizedHeaders))))

\* analyzeHeaders after its first loop
AfterNormalize(this, cfg, now, url, statusCode, normalizedHeaders) ==
  AfterRules(this, cfg, now, url, statusCode, normalizedHeaders,
             MapSeq(CheckedRules(this.securityHeaders),
                    LAMBDA info : CheckHeader(cfg, info, normalizedHeaders)))

\* analyzeHeaders(url, headers, statusCode) on the checker this with the
\* config cfg at the time now: Ret(result), or the exception a validator
\* raised in the loop over the rules
analyzeHeaders(this, cfg, now, url, headers, statusCode) ==
  AfterNormalize(this, cfg, now, url, statusCode, NormalizeHeaders(headers))

\* createDefaultChecker(options) of core/api: the rules of the essential,
\* advanced, cors and cookies modules merged in that order, the two
\* analyzers, and the options spread over them
MergeRules(modules) ==
  LET rule(e) == e.key # "cookieAnalyzer"
  IN  modules.essential \o modules.advanced \o modules.cors
      \o SelectSeq(modules.cookies, rule)

ModuleFn(exports, key) ==
  LET named(e) == e.key = key
      found == SelectSeq(exports, named)
  IN  IF Len(found) > 0 THEN <<<<key, found[1].fn>>>> ELSE <<>>

createDefaultChecker(modules, options) ==
  [httpClient |-> options.httpClient,
   securityHeaders |-> MergeRules(modules),
   analyzers |-> ModuleFn(modules.cookies, "cookieAnalyzer")
                 \o ModuleFn(modules.disclosure, "dangerousHeaders"),
   verbose |-> options.verbose]


(***************************************************************************)
(* Header maps the model evaluates.  A header map is a JavaScript object:  *)
(* a sequence of <<name, value>> entries with distinct names, in insertion *)
(* order.                                                                  *)
(***************************************************************************)
HstsGood == "max-age=31536000; includeSubDomains; preload"
CspGood == "default-src 'self'; script-src 'self'; style-src 'self'"
ReportToGood ==
  "{\"group\": \"default\", \"max_age\": 31536000, \"endpoints\": [{\"url\": \"https://example.com/reports\"}]}"
NelGood == "{\"report_to\": \"default\", \"max_age\": 31536000, \"include_subdomains\": true}"

\* every essential, advanced and CORS header with a well configured value
AllGood == <<
  <<"strict-transport-security", Str(HstsGood)>>,
  <<"content-security-policy", Str(CspGood)>>,
  <<"x-content-type-options", Str("nosniff")>>,
  <<"x-frame-options", Str("DENY")>>,
  <<"x-xss-protection", Str("1; mode=block")>>,
  <<"referrer-policy", Str("strict-origin-when-cross-origin")>>,
  <<"permissions-policy", Str("camera=(), microphone=()")>>,
  <<"cache-control", Str("no-store, max-age=0")>>,
  <<"expect-ct", Str("max-age=86400, enforce")>>,
  <<"report-to", Str(ReportToGood)>>,
  <<"nel", Str(NelGood)>>,
  <<"clear-site-data", Str("\"*\"")>>,
  <<"cross-origin-embedder-policy", Str("require-corp")>>,
  <<"cross-origin-opener-policy", Str("same-origin")>>,
  <<"cross-origin-resource-policy", Str("same-origin")>>,
  <<"server-timing", Str("db;dur=53")>>,
  <<"access-control-allow-origin", Str("https://example.com")>>,
  <<"access-control-allow-credentials", Str("true")>>,
  <<"access-control-allow-methods", Str("GET, POST")>>,
  <<"access-control-allow-headers", Str("Content-Type")>>,
  <<"access-control-expose-headers", Str("X-Request-Id")>>,
  <<"access-control-max-age", Str("7200")>> >>

\* every header of the disclosure table, Server and X-Powered-By with a
\* version number
AllDisclosure ==
  LET entry(info) ==
        <<info.key, Str(IF info.key = "server" THEN "nginx/1.18.0"
                        ELSE IF info.key = "x-powered-by" THEN "PHP/8.1.2"
                        ELSE "1")>>
  IN  MapSeq(dangerousHeaders, entry)

\* every essential, advanced and CORS header with a value its validator
\* reports, where it has one
AllBad == <<
  <<"strict-transport-security", Str("max-age=1000")>>,
  <<"content-security-policy", Str("script-src 'unsafe-inline'")>>,
  <<"x-content-type-options", Str("nosniff")>>,
  <<"x-frame-options", Str("ALLOW-FROM https://example.com")>>,
  <<"x-xss-protection", Str("0")>>,
  <<"referrer-policy", Str("unsafe-url")>>,
  <<"permissions-policy", Str("camera=*")>>,
  <<"cache-control", Str("public")>>,
  <<"expect-ct", Str("enforce")>>,
  <<"report-to", Str("{}")>>,
  <<"nel", Str("null")>>,
  <<"clear-site-data", Str("\"cache\", \"cookies\"")>>,
  <<"cross-origin-embedder-policy", Str("unsafe-none")>>,
  <<"cross-origin-opener-policy", Str("bogus")>>,
  <<"cross-origin-resource-policy", Str("bogus")>>,
  <<"server-timing", Str("db;dur=53")>>,
  <<"access-control-allow-origin", Str("*")>>,
  <<"access-control-allow-credentials", Str("TRUE")>>,
  <<"access-control-allow-methods", Str("GET, put")>>,
  <<"access-control-allow-headers", Str("*")>>,
  <<"access-control-expose-headers", Str("X-A, authorization")>>,
  <<"access-control-max-age", Str("86401")>> >>

Profiles == {<<>>, AllGood, AllDisclosure, AllGood \o AllDisclosure, AllBad}

Cookies == {"session=abc123; Secure", "id=1; Secure; HttpOnly; SameSite=Lax",
            "t=1; samesite=none; HttpOnly", "a=b"}

\* the length of the longest Set-Cookie array
MaxCookies == 2

RECURSIVE SeqsUpTo(_, _)
SeqsUpTo(S, n) ==
  IF n = 0 THEN {<<>>}
  ELSE SeqsUpTo(S, n - 1)
       \cup {Append(a, x) : a \in {b \in SeqsUpTo(S, n - 1) : Len(b) = n - 1}, x \in S}

StrValues(S) == {Str(x) : x \in S}

\* the values a header is set to
ValuesOf(name) ==
  CASE name = "strict-transport-security" ->
         StrValues({HstsGood, "max-age=1000", "max-age=31536000",
                    "max-age=31536000; includeSubDomains", "includeSubDomains; preload",
                    "max-age=abc; includeSubDomains; preload", "",
                    "max-age=31535999; includeSubDomains; preload",
                    "max-age=31536000; preload", "max-age=0", "preload",
                    "includeSubDomains; preload; max-age=63072000"})
         \cup {Arr(<<HstsGood>>), Arr(<<"max-age=">>)}
    [] name = "Strict-Transport-Security" -> StrValues({HstsGood, "max-age=1000"})
    [] name = "content-security-policy" ->
         StrValues({CspGood, "script-src 'unsafe-inline'", "default-src *",
                    "default-src 'self'; img-src *", "",
                    "default-src 'self'; script-src 'unsafe-eval'; style-src *",
                    "default-src 'self'; script-src 'self'; style-src 'self'; font-src *"})
    [] name = "x-content-type-options" -> StrValues({"nosniff", ""})
    [] name = "x-frame-options" ->
         StrValues({"sameorigin", "ALLOW-FROM https://example.com"}) \cup {Arr(<<"DENY">>)}
    [] name = "x-xss-protection" -> StrValues({"1; mode=block", "0", "1"})
    [] name = "referrer-policy" -> StrValues({"no-referrer", "unsafe-url"})
    [] name = "expect-ct" -> StrValues({"max-age=86400, enforce", "enforce", "max-age=86400"})
    [] name = "report-to" ->
         StrValues({ReportToGood, "{}", "null", "not json",
                    "{\"endpoints\": [1], \"max_age\": 5}"})
    [] name = "nel" ->
         StrValues({NelGood, "{\"max_age\": 86400}", "null",
                    "{\"report_to\": \"default\", \"max_age\": 5}"})
    [] name = "clear-site-data" -> StrValues({"\"*\"", "\"cache\", \"cookies\""})
    [] name = "cross-origin-embedder-policy" ->
         StrValues({"credentialless", "unsafe-none"}) \cup {Arr(<<"require-corp">>)}
    [] name = "cross-origin-opener-policy" -> StrValues({"same-origin-allow-popups", "bogus"})
    [] name = "cross-origin-resource-policy" -> StrValues({"same-site", "bogus"})
    [] name = "access-control-allow-origin" -> StrValues({"*", "https://example.com"})
    [] name = "access-control-allow-credentials" ->
         StrValues({"true", "TRUE", "false"}) \cup {Arr(<<"true">>)}
    [] name = "access-control-allow-methods" ->
         StrValues({"GET, POST", "GET, put"}) \cup {Arr(<<"GET">>)}
    [] name = "access-control-allow-headers" -> StrValues({"*", "Content-Type"})
    [] name = "access-control-expose-headers" ->
         StrValues({"X-Request-Id", "X-A, authorization"}) \cup {Arr(<<"X-A">>)}
    [] name = "access-control-max-age" -> StrValues({"7200", "86401", "abc"})
    [] name = "set-cookie" ->
         StrValues(Cookies \cup {""}) \cup {Arr(a) : a \in SeqsUpTo(Cookies, MaxCookies)}
    [] name = "server" ->
         StrValues({"nginx", "nginx/1.18.0", ""}) \cup {Arr(<<"nginx/1.18.0">>)}
    [] name = "Server" -> StrValues({"nginx", "nginx/1.18.0"})
    [] name = "x-powered-by" -> StrValues({"Express", "PHP/8.1"})
    [] OTHER -> StrValues({"1"})

\* the header names a caller sets or deletes
HeaderNames ==
  {AllGood[i][1] : i \in 1..Len(AllGood)}
  \cup {dangerousHeaders[i].key : i \in 1..Len(dangerousHeaders)}
  \cup {"set-cookie", "Strict-Transport-Security", "Server", "x-custom"}

\* delete obj[name]
Delete(obj, name) ==
  LET other(e) == e[1] # name
  IN  SelectSeq(obj, other)

\* a profile with one header set to one of its values, or one header deleted
Overrides(profile) ==
  UNION {{Put(profile, name, value) : value \in ValuesOf(name)} : name \in HeaderNames}
  \cup {Delete(profile, profile[i][1]) : i \in 1..Len(profile)}

\* the header maps a caller passes to analyzeHeaders
InputMaps == Profiles \cup Overrides(AllGood) \cup Overrides(<<>>)

VARIABLES
  config,         \* the config module
  headerModules,  \* the exports of the header modules
  checkers,       \* the SecurityHeaderChecker instances
  clock,          \* the number of new Date() readings so far
  headers,        \* the header map of the caller
  results,        \* the outcomes of the analyzeHeaders calls, oldest first
  calls           \* the checkUrl and scanUrl call of each caller

vars == <<config, headerModules, checkers, clock, headers, results, calls>>

\* the number of analyzeHeaders calls on one header map
MaxCalls == 2

\* the callers of checkUrl and scanUrl
Callers == {"a", "b"}

DefaultOptions == [httpClient |-> "HttpClient", verbose |-> FALSE]
VerboseOptions == [httpClient |-> "HttpClient", verbose |-> TRUE]

Idle == [pc |-> "idle"]

\* after construction: the modules are loaded, one checker of each verbosity
\* is built by createDefaultChecker, no call was made
Loaded ==
  /\ config = DefaultConfig
  /\ headerModules = DefaultHeaderModules
  /\ checkers = <<createDefaultChecker(DefaultHeaderModules, DefaultOptions),
                  createDefaultChecker(DefaultHeaderModules, VerboseOptions)>>
  /\ clock = 0
  /\ results = <<>>
  /\ calls = [p \in Callers |-> Idle]

Init ==
  /\ Loaded
  /\ headers \in InputMaps

\* the call returns or throws out
Return(c, url, statusCode, out) ==
  /\ results' = Append(results,
       [checker |-> c, url |-> url, headers |-> headers,
        statusCode |-> statusCode, out |-> out])
  /\ clock' = IF out.threw THEN clock ELSE clock + 1

\* analyzeHeaders keeping the outcome in the checker it ran on
AnalyzeHeadersCaching(c, url, statusCode) ==
  /\ Len(results) < MaxCalls
  /\ Return(c, url, statusCode,
            analyzeHeaders(checkers[c], config, clock, url, headers, statusCode))
  /\ checkers' = [checkers EXCEPT ![c] =
       [httpClient |-> @.httpClient, securityHeaders |-> @.securityHeaders,
        analyzers |-> @.analyzers, verbose |-> @.verbose,
        lastCall |-> Len(results) + 1]]
  /\ UNCHANGED <<config, headerModules, headers, calls>>

\* checkers[c].analyzeHeaders(url, headers, statusCode); new Date() is read
\* once, when the result is built
AnalyzeHeaders(c, url, statusCode) ==
  /\ Len(results) < MaxCalls
  /\ Return(c, url, statusCode,
            analyzeHeaders(checkers[c], config, clock, url, headers, statusCode))
  /\ UNCHANGED <<config, headerModules, checkers, headers, calls>>

Next ==
  \E c \in 1..Len(checkers) : AnalyzeHeaders(c, "https://example.com", 200)

Spec == Init /\ [][Next]_vars


(***************************************************************************)
(* checkUrl and scanUrl.  Each caller makes one call; the call waits for   *)
(* the promise of httpClient.fetch and runs to its end when that settles.  *)
(***************************************************************************)

\* the result both catch blocks build
ErrorResult(url, message, now) ==
  [url |-> url, status |-> "error", errorMessage |-> message, timestamp |-> now,
   headers |-> <<>>, findings |-> <<>>, score |-> 0, grade |-> "F"]

\* new URL(url) accepts url: of the urls used here, those with a host after
\* the scheme
ParsesAsUrl(url) ==
  \/ StartsWith(url, "http://") /\ Len(url) > Len("http://")
  \/ StartsWith(url, "https://") /\ Len(url) > Len("https://")

\* HttpClient.validateUrl(url): the exception it throws, or none
validateUrl(url) ==
  IF url = "" THEN [threw |-> TRUE, message |-> "URL is required and must be a string"]
  ELSE IF ~ParsesAsUrl(IF StartsWith(url, "http") THEN url ELSE "https://" \o url)
  THEN [threw |-> TRUE, message |-> "Invalid URL: " \o url]
  ELSE Ret(url)

\* the errors HttpClient.fetch(url) rejects with
FetchErrors(url) ==
  IF validateUrl(url).threw THEN {validateUrl(url).message}
  ELSE {"Domain not found: " \o url,
        "Connection timed out for: " \o url,
        "Network error accessing " \o url}

\* the responses HttpClient.fetch resolves with
Responses ==
  {[status |-> 200, headers |-> h] :
     h \in {<<>>, AllGood \o AllDisclosure,
            Put(AllGood, "x-frame-options", Arr(<<"DENY">>))}}
  \cup {[status |-> 503, headers |-> <<<<"Server", Str("nginx/1.18.0")>>>>]}

\* the urls the callers scan
Urls == {"", "example.com", "https://example.com"}

\* url.startsWith('http') ? url : 'https://' + url
WithScheme(url) == IF StartsWith(url, "http") THEN url ELSE "https://" \o url

\* checkers[c].checkUrl(url) up to its await
CheckUrl(p, c, url) ==
  /\ calls[p].pc = "idle"
  /\ calls' = [calls EXCEPT ![p] =
       [pc |-> "fetching", api |-> "checkUrl", checker |-> checkers[c],
        url |-> WithScheme(url)]]
  /\ UNCHANGED <<config, headerModules, checkers, clock, headers, results>>

\* scanUrl(url, options) up to the await in the checkUrl it calls; options
\* is Null for a caller that passes null
ScanUrl(p, url, options) ==
  /\ calls[p].pc = "idle"
  /\ IF ~Truthy(Str(url))
     THEN /\ calls' = [calls EXCEPT ![p] =
                [pc |-> "rejected", api |-> "scanUrl", url |-> url,
                 error |-> "URL is required"]]
          /\ clock' = clock
     ELSE IF options = Null
     THEN /\ calls' = [calls EXCEPT ![p] =
                [pc |-> "resolved", api |-> "scanUrl", url |-> url,
                 failed |-> TRUE, error |-> TypeError.message,
                 value |-> ErrorResult(url, TypeError.message, clock)]]
          /\ clock' = clock + 1
     ELSE /\ calls' = [calls EXCEPT ![p] =
                [pc |-> "fetching", api |-> "scanUrl",
                 checker |-> createDefaultChecker(headerModules, options),
                 url |-> WithScheme(url)]]
          /\ clock' = clock
  /\ UNCHANGED <<config, headerModules, checkers, headers, results>>

\* the outcomes of the promise of HttpClient.fetch(url): fulfilled with a
\* response, or rejected with an Error when the url is invalid or the
\* request fails
Outcomes(url) ==
  {[fulfilled |-> FALSE, message |-> message] : message \in FetchErrors(url)}
  \cup (IF validateUrl(url).threw THEN {}
        ELSE {[fulfilled |-> TRUE, response |-> response] : response \in Responses})

\* the promise of the fetch of caller p settles; checkUrl resumes later
Settle(p, outcome) ==
  /\ calls[p].pc = "fetching"
  /\ outcome \in Outcomes(calls[p].url)
  /\ calls' = [calls EXCEPT ![p] =
       [pc |-> "settled", api |-> calls[p].api, checker |-> calls[p].checker,
        url |-> calls[p].url, outcome |-> outcome]]
  /\ UNCHANGED <<config, headerModules, checkers, clock, headers, results>>

\* checkUrl analyzing the response its checker holds: a response kept in a
\* field of the checker, where the fetches of all calls on it put theirs
TryAnalyzeKept(call, now) ==
  LET kept == CHOOSE q \in Callers :
                calls[q].pc = "settled" /\ calls[q].checker = call.checker
  IN  IF calls[kept].outcome.fulfilled
      THEN analyzeHeaders(call.checker, config, now, call.url,
                          calls[kept].outcome.response.headers,
                          calls[kept].outcome.response.status)
      ELSE [threw |-> TRUE, message |-> calls[kept].outcome.message]

\* what the try block of checkUrl returns or throws for an outcome of the
\* fetch: the rejection is thrown at the await, a response is analyzed
TryAnalyze(call, now) ==
  IF call.outcome.fulfilled
  THEN analyzeHeaders(call.checker, config, now, call.url,
                      call.outcome.response.headers, call.outcome.response.status)
  ELSE [threw |-> TRUE, message |-> call.outcome.message]

\* checkUrl without its catch block: what the try block throws rejects the
\* promise of checkUrl, and the catch block of scanUrl, when scanUrl made
\* the call, returns the error result
ReturnOrReject(p, out) ==
  /\ calls' = [calls EXCEPT ![p] =
       IF out.threw /\ calls[p].api = "checkUrl"
       THEN [pc |-> "rejected", api |-> calls[p].api, url |-> calls[p].url,
             error |-> out.message]
       ELSE [pc |-> "resolved", api |-> calls[p].api, url |-> calls[p].url,
             failed |-> out.threw,
             error |-> IF out.threw THEN out.message ELSE "",
             value |-> IF out.threw THEN ErrorResult(calls[p].url, out.message, clock)
                       ELSE out.value]]
  /\ clock' = clock + 1

\* the try and catch of checkUrl: out is what the try block returned or
\* threw, and the catch block turns what it threw into the error result
ReturnOrCatch(p, out) ==
  /\ calls' = [calls EXCEPT ![p] =
       [pc |-> "resolved", api |-> calls[p].api, url |-> calls[p].url,
        failed |-> out.threw,
        error |-> IF out.threw THEN out.message ELSE "",
        value |-> IF out.threw THEN ErrorResult(calls[p].url, out.message, clock)
                  ELSE out.value]]
  /\ clock' = clock + 1

\* checkUrl of caller p resumes after its await and runs to its end
Resume(p) ==
  /\ calls[p].pc = "settled"
  /\ ReturnOrCatch(p, TryAnalyze(calls[p], clock))
  /\ UNCHANGED <<config, headerModules, checkers, headers, results>>

\* the outcomes a fetch of one of the urls can have
AllOutcomes == UNION {Outcomes(WithScheme(url)) : url \in Urls}

ScanInit ==
  /\ Loaded
  /\ headers = <<>>

ScanNext ==
  \/ \E p \in Callers : \E c \in 1..Len(checkers) : \E url \in Urls : CheckUrl(p, c, url)
  \/ \E p \in Callers : \E url \in Urls :
       \E options \in {DefaultOptions, Null} : ScanUrl(p, url, options)
  \/ \E p \in Callers : \E outcome \in AllOutcomes : Settle(p, outcome)
  \/ \E p \in Callers : Resume(p)

\* Resume(p) is enabled exactly when the promise of p has settled
ResumeEnabled(p) == calls[p].pc = "settled"

\* axios settles every request within its timeout, and the event loop runs
\* the continuation of a settled promise: weak fairness of Settle and of
\* Resume, the latter with ENABLED <<Resume(p)>>_vars written out
ScanSpec ==
  /\ ScanInit
  /\ [][ScanNext]_vars
  /\ \A p \in Callers : WF_vars(\E outcome \in AllOutcomes : Settle(p, outcome))
  /\ \A p \in Callers : []<>(~ResumeEnabled(p)) \/ []<><<Resume(p)>>_vars


(***************************************************************************)
(* A caller that analyzes its header map, edits the map, and analyzes it   *)
(* again: it rewrites the header names in capital letters, or adds a       *)
(* header the checker has no rule for.                                     *)
(***************************************************************************)

\* the lowercase names the checker looks up: the keys of the rule tables
\* and of the table of the disclosure analyzer (set-cookie is a rule key)
LookedUpNames ==
  {checkers[1].securityHeaders[i].key : i \in 1..Len(checkers[1].securityHeaders)}
  \cup {dangerousHeaders[i].key : i \in 1..Len(dangerousHeaders)}
  \cup {"set-cookie"}

\* the headers a caller adds that the checker has no rule for
UnknownHeaders == {<<"X-Request-Id", Str("42")>>, <<"etag", Str("W/\"1.18.0\"")>>}

\* the lowercase names of a header map; no two of its names are equal up
\* to letter case
LowerNames(h) == {ToLowerCase(h[i][1]) : i \in 1..Len(h)}

NoCaseClash(h) == Cardinality(LowerNames(h)) = Len(h)

\* the header map with every name in capital letters
CapitalNames(h) ==
  LET capital(entry) == <<ToUpperCase(entry[1]), entry[2]>>
  IN  MapSeq(h, capital)

\* the caller rewrites the names of its header map in capital letters
Capitalize ==
  /\ Len(results) = 1
  /\ results[1].headers = headers
  /\ NoCaseClash(headers)
  /\ headers' = CapitalNames(headers)
  /\ headers' # headers
  /\ UNCHANGED <<config, headerModules, checkers, clock, results, calls>>

\* the caller adds a header to its header map
AddHeader(entry) ==
  /\ Len(results) = 1
  /\ results[1].headers = headers
  /\ ToLowerCase(entry[1]) \notin LowerNames(headers)
  /\ headers' = Append(headers, entry)
  /\ UNCHANGED <<config, headerModules, checkers, clock, results, calls>>

EditNext ==
  \/ AnalyzeHeaders(1, "https://example.com", 200)
  \/ Capitalize
  \/ \E entry \in UnknownHeaders : AddHeader(entry)

EditSpec == Init /\ [][EditNext]_vars


(***************************************************************************)
(* The validators of the essential headers called on their own, as the     *)
(* unit tests call them: essentialHeaders[key].checkConfiguration(         *)
(* headers[key]) on the header map of the caller, whose names are taken    *)
(* as they are.                                                            *)
(***************************************************************************)
\* the rules of the essential module that have a validator
ValidatedRules ==
  LET validated(rule) == rule.checkConfiguration # "none"
  IN  SelectSeq(headerModules.essential, validated)

CheckConfiguration(rule) ==
  /\ Len(results) < MaxCalls
  /\ results' = Append(results,
       [key |-> rule.key, value |-> GetHeader(headers, rule.key),
        out |-> CallValidator(rule.checkConfiguration,
                              GetHeader(headers, rule.key), Undefined)])
  /\ UNCHANGED <<config, headerModules, checkers, clock, headers, calls>>

ValidatorNext ==
  \E i \in 1..Len(ValidatedRules) : CheckConfiguration(ValidatedRules[i])

ValidatorSpec == Init /\ [][ValidatorNext]_vars

(***************************************************************************)
(* The JSON report (src/reports/json-report.js).  generateReport works on  *)
(* a copy of the results made by JSON.stringify and JSON.parse, and        *)
(* returns the text JSON.stringify makes of the report, in which every     *)
(* array keeps its order: the report is modelled as the object that is     *)
(* stringified.  The action and implementation texts of the                *)
(* recommendations are left out of the model.                              *)
(***************************************************************************)
\* JSON.parse(JSON.stringify(finding)): a property whose value is undefined
\* is left out
JsonCopyFinding(finding) ==
  LET kept == {k \in DOMAIN finding : k = "value" => finding[k] # Undefined}
  IN  [k \in kept |-> finding[k]]

\* JSON.parse(JSON.stringify(results))
JsonCopy(scanResults) ==
  [k \in DOMAIN scanResults |->
     IF k = "findings" THEN MapSeq(scanResults[k], JsonCopyFinding)
     ELSE scanResults[k]]

\* criticalityOrder with the ranks counted from 0
criticalityOrderFromZero(rating) ==
  CASE rating = "high" -> 0
    [] rating = "medium" -> 1
    [] rating = "low" -> 2
    [] rating = "info" -> 3
    [] rating = "undefined" -> 4
    [] OTHER -> 0

\* criticalityOrder[rating], 0 standing for the undefined of a rating that
\* is not a key
criticalityOrder(rating) ==
  CASE rating = "high" -> 1
    [] rating = "medium" -> 2
    [] rating = "low" -> 3
    [] rating = "info" -> 4
    [] rating = "undefined" -> 5
    [] OTHER -> 0

\* criticalityOrder[a.criticalRating] || 4
CriticalityValue(finding) ==
  LET rating == IF "criticalRating" \in DOMAIN finding THEN finding.criticalRating
                ELSE "undefined"
  IN  IF criticalityOrder(rating) # 0 THEN criticalityOrder(rating) ELSE 4

\* findings.sort(sortByCriticality): Array.prototype.sort is stable, so the
\* findings of one value keep their order
sortByCriticality(findings) ==
  LET valued(v) == LET at(f) == CriticalityValue(f) = v IN SelectSeq(findings, at)
  IN  valued(0) \o valued(1) \o valued(2) \o valued(3) \o valued(4) \o valued(5)

\* findings.filter(f => f[field] === x)
FilterBy(findings, field, x) ==
  LET is(f) == field \in DOMAIN f /\ f[field] = x
  IN  SelectSeq(findings, is)

\* the reportData[type + 'Findings'] the loop over findingTypes sets
TypeFindings(findings, type) ==
  IF Len(FilterBy(findings, "status", type)) > 0
  THEN (type \o "Findings") :> sortByCriticality(FilterBy(findings, "status", type))
  ELSE [k \in {} |-> <<>>]

generateRecommendations(scanResults) ==
  LET actionable(f) == f.status \in {"missing", "misconfigured", "dangerous"}
      recommendation(f) ==
        [header |-> f.header,
         description |-> IF "description" \in DOMAIN f THEN f.description ELSE ""]
      rated(rating) ==
        MapSeq(FilterBy(SelectSeq(scanResults.findings, actionable), "criticalRating", rating),
               recommendation)
      other(f) == actionable(f) /\ f.criticalRating \notin {"high", "medium", "low"}
  IN  [critical |-> rated("high"), important |-> rated("medium"),
       recommended |-> rated("low"),
       optional |-> MapSeq(SelectSeq(scanResults.findings, other), recommendation)]

\* the report of the copy reportData, its findings sorted
ReportOf(reportData, sorted, now) ==
  [metadata |-> [reportVersion |-> "1.0", generatedAt |-> now, scannerVersion |-> "1.0.0"],
   summary |-> [totalHeaders |-> Len(reportData.headers),
                missingHeaders |-> Len(FilterBy(reportData.findings, "status", "missing")),
                misconfiguredHeaders |->
                  Len(FilterBy(reportData.findings, "status", "misconfigured")),
                dangerousHeaders |-> Len(FilterBy(reportData.findings, "status", "dangerous")),
                presentHeaders |-> Len(FilterBy(reportData.findings, "status", "present"))],
   criticalFindings |->
     [high |-> sortByCriticality(FilterBy(reportData.findings, "criticalRating", "high")),
      medium |-> sortByCriticality(FilterBy(reportData.findings, "criticalRating", "medium")),
      low |-> sortByCriticality(FilterBy(reportData.findings, "criticalRating", "low")),
      info |-> sortByCriticality(FilterBy(reportData.findings, "criticalRating", "info"))],
   findings |-> sorted,
   recommendations |-> generateRecommendations([findings |-> sorted])]
  @@ TypeFindings(sorted, "missing") @@ TypeFindings(sorted, "misconfigured")
  @@ TypeFindings(sorted, "dangerous") @@ TypeFindings(sorted, "present")
  @@ reportData

\* generateReport(results) at the time now
generateReport(scanResults, now) ==
  ReportOf(JsonCopy(scanResults), sortByCriticality(JsonCopy(scanResults).findings), now)

\* the caller makes the JSON report of the result analyzeHeaders returned
GenerateReport ==
  /\ Len(results) > 0 /\ Len(results) < MaxCalls
  /\ "out" \in DOMAIN results[Len(results)]
  /\ ~results[Len(results)].out.threw
  /\ results' = Append(results,
       [of |-> Len(results),
        report |-> generateReport(results[Len(results)].out.value, clock)])
  /\ clock' = clock + 1
  /\ UNCHANGED <<config, headerModules, checkers, headers, calls>>

ReportNext ==
  \/ \E c \in 1..Len(checkers) : AnalyzeHeaders(c, "https://example.com", 200)
  \/ GenerateReport

ReportSpec == Init /\ [][ReportNext]_vars

(***************************************************************************)
(* calculateGrade called on its own, next to the analyzeHeaders calls that *)
(* call it on their score: the scores are those on either side of every    *)
(* threshold.                                                              *)
(***************************************************************************)
GradeScores == {0, 49, 50, 59, 60, 69, 70, 79, 80, 89, 90, 100}

\* checkers[c].calculateGrade(score)
CalculateGrade(c, score) ==
  /\ Len(results) < MaxCalls
  /\ results' = Append(results,
       [checker |-> c,
        out |-> Ret([score |-> score, grade |-> calculateGrade(config, score)])])
  /\ UNCHANGED <<config, headerModules, checkers, clock, headers, calls>>

GradeInit ==
  /\ Loaded
  /\ headers \in Profiles

GradeNext ==
  \/ \E c \in 1..Len(checkers) : AnalyzeHeaders(c, "https://example.com", 200)
  \/ \E score \in GradeScores : CalculateGrade(1, score)

GradeSpec == GradeInit /\ [][GradeNext]_vars

(***************************************************************************)
(* The cookie analyzer called on its own: cookieAnalyzer(headers[          *)
(* 'set-cookie']) on a header map that holds nothing but Set-Cookie, one   *)
(* call in a behaviour.                                                    *)
(***************************************************************************)
\* the cookies a server sets: attributes in the letter case of RFC 6265 and
\* in lowercase, as PHP writes secure
CookieJar ==
  {"session=abc123; Secure", "id=1; Secure; HttpOnly; SameSite=Lax",
   "id=1; secure; httponly; samesite=lax", "t=1; SameSite=None; HttpOnly",
   "a=b", "auth_token=x; Secure; HttpOnly; SameSite=Strict",
   "pref=1; HttpOnly; SameSite=Strict"}

CookieValues == StrValues(CookieJar) \cup {Arr(a) : a \in SeqsUpTo(CookieJar, MaxCookies) \ {<<>>}}

CookieInit ==
  /\ Loaded
  /\ headers \in {<<<<"set-cookie", value>>>> : value \in CookieValues}

\* analyzers.cookieAnalyzer(headers['set-cookie'])
AnalyzeCookies ==
  /\ results = <<>>
  /\ results' = <<[fn |-> "cookieAnalyzer", value |-> GetHeader(headers, "set-cookie"),
                   out |-> Ret(cookieAnalyzer(GetHeader(headers, "set-cookie")))]>>
  /\ UNCHANGED <<config, headerModules, checkers, clock, headers, calls>>

\* checkSetCookieConfiguration(headers['set-cookie'])
CheckSetCookie ==
  /\ results = <<>>
  /\ results' = <<[fn |-> "checkSetCookieConfiguration",
                   value |-> GetHeader(headers, "set-cookie"),
                   out |-> checkSetCookieConfiguration(GetHeader(headers, "set-cookie"),
                                                       Undefined)]>>
  /\ UNCHANGED <<config, headerModules, checkers, clock, headers, calls>>

CookieNext == AnalyzeCookies \/ CheckSetCookie

CookieSpec == CookieInit /\ [][CookieNext]_vars

(***************************************************************************)
(* A caller that analyzes its header map, adds a header of the essential,  *)
(* advanced or CORS rules the map does not have, and analyzes the map      *)
(* again.                                                                  *)
(***************************************************************************)

\* the header names analyzeHeaders weighs in the essential, advanced or
\* CORS category
WeighedNames ==
  {checkers[1].securityHeaders[i].key : i \in 1..Len(checkers[1].securityHeaders)}
  \cap ({DefaultConfig.essentialHeaderWeights[i][1] :
           i \in 1..Len(DefaultConfig.essentialHeaderWeights)}
        \cup {DefaultConfig.advancedHeaderWeights[i][1] :
                i \in 1..Len(DefaultConfig.advancedHeaderWeights)}
        \cup {DefaultConfig.corsHeaderWeights[i][1] :
                i \in 1..Len(DefaultConfig.corsHeaderWeights)})

\* the header maps the caller starts from: the empty map, the well
\* configured map less one header, and a CORS origin or credentials header
\* alone
MapsToExtend ==
  {<<>>}
  \cup {Delete(AllGood, AllGood[i][1]) : i \in 1..Len(AllGood)}
  \cup UNION {{<<<<name, value>>>> : value \in ValuesOf(name)} :
                 name \in {"access-control-allow-origin",
                           "access-control-allow-credentials"}}

ExtendInit == Loaded /\ headers \in MapsToExtend

\* headers[name] = value for a weighed header the analyzed map lacks, value
\* being non-empty
AddRuleHeader(name, value) ==
  /\ Len(results) >= 1
  /\ results[Len(results)].headers = headers
  /\ Cardinality({i \in 1..Len(results) : results[i].headers # headers}) = 0
  /\ ~HasKey(headers, name)
  /\ Truthy(value)
  /\ headers' = Put(headers, name, value)
  /\ UNCHANGED <<config, headerModules, checkers, clock, results, calls>>

ExtendNext ==
  \/ AnalyzeHeaders(1, "https://example.com", 200)
  \/ \E name \in WeighedNames : \E value \in ValuesOf(name) : AddRuleHeader(name, value)

ExtendSpec == ExtendInit /\ [][ExtendNext]_vars

(***************************************************************************)
(* Properties                                                              *)
(***************************************************************************)
\* the analyzeHeaders calls that returned a result
Returned == {i \in 1..Len(results) : ~results[i].out.threw}

ResultOf(i) == results[i].out.value

\* the subtotal less the penalties before rounding and clamping, as a
\* fraction of tenths of a point
Subtotal(result) ==
  RawScore(result.scoreBreakdown.essential.weighted,
           result.scoreBreakdown.advanced.weighted,
           result.scoreBreakdown.cors.weighted,
           result.scoreBreakdown.penalties.dangerous,
           result.scoreBreakdown.penalties.cookies)

\* C1: the score of every result analyzeHeaders returns is an integer from
\* 0 to 100, also when the weighted subtotal less the penalties is not
C1_ScoreInRange == \A i \in Returned : ResultOf(i).score \in 0..100

\* a returned result whose subtotal less the penalties is below 0
C1_Witness ==
  \E i \in Returned : Subtotal(ResultOf(i)).num < 0 /\ ResultOf(i).score = 0

\* C2 as claimed: every finding of every returned result, whatever its
\* status or origin, carries pointsEarned with 0 <= pointsEarned <= weight
C2_EveryFindingEarnsWithinWeight ==
  \A i \in Returned : \A k \in 1..Len(ResultOf(i).findings) :
    LET f == ResultOf(i).findings[k]
    IN  /\ "pointsEarned" \in DOMAIN f
        /\ "weight" \in DOMAIN f
        /\ 0 <= f.pointsEarned
        /\ f.pointsEarned <= f.weight * Tenths

\* C2 as amended: a present or misconfigured finding of a registry rule has
\* 0 <= pointsEarned <= weight, a present one earning its whole weight; a
\* missing finding carries its weight and no pointsEarned; a finding of the
\* disclosure or of the cookie analyzer carries neither
C2_RuleFindingsEarnWithinWeight ==
  \A i \in Returned : \A k \in 1..Len(ResultOf(i).findings) :
    LET f == ResultOf(i).findings[k]
    IN  IF f.status = "dangerous" \/ "issues" \in DOMAIN f
        THEN "pointsEarned" \notin DOMAIN f /\ "weight" \notin DOMAIN f
        ELSE IF f.status = "missing"
        THEN "pointsEarned" \notin DOMAIN f /\ "weight" \in DOMAIN f
        ELSE /\ f.status \in {"present", "misconfigured"}
             /\ 0 <= f.pointsEarned
             /\ f.pointsEarned <= f.weight * Tenths
             /\ f.status = "present" => f.pointsEarned = f.weight * Tenths

\* a returned result with a rule finding of partial credit, a missing
\* finding and a finding of an analyzer
C2_Witness ==
  \E i \in Returned :
    /\ \E k \in 1..Len(ResultOf(i).findings) :
         LET f == ResultOf(i).findings[k]
         IN  /\ f.status = "misconfigured" /\ "weight" \in DOMAIN f
             /\ 0 < f.pointsEarned /\ f.pointsEarned < f.weight * Tenths
    /\ \E k \in 1..Len(ResultOf(i).findings) : ResultOf(i).findings[k].status = "missing"
    /\ \E k \in 1..Len(ResultOf(i).findings) : "issues" \in DOMAIN ResultOf(i).findings[k]

\* every essential, advanced and CORS rule has a present finding, and no
\* analyzer added a finding
WellConfigured(result) ==
  /\ \A k \in 1..Len(result.findings) :
       LET f == result.findings[k]
       IN  /\ f.status # "dangerous"
           /\ "issues" \notin DOMAIN f
           /\ f.category \in {"essential", "advanced", "cors"} => f.status = "present"
  /\ \A c \in {"essential", "advanced", "cors"} :
       \E k \in 1..Len(result.findings) : result.findings[k].category = c

\* C3: a header map with every essential, advanced and CORS header present
\* and accepted by its validator, without disclosure header and without
\* cookie issue, scores exactly 100 and is graded A
C3_WellConfiguredScoresHundred ==
  \A i \in Returned :
    WellConfigured(ResultOf(i)) => ResultOf(i).score = 100 /\ ResultOf(i).grade = "A"

\* a well configured header map was scored
C3_Witness ==
  \E i \in Returned :
    /\ WellConfigured(ResultOf(i))
    /\ Len(ResultOf(i).headers) >= Len(AllGood)
    /\ ResultOf(i).scoreBreakdown.essential.total = 75

\* C4: the empty header map scores 0 and grades F, and every rule of the
\* registry is reported by one missing finding, in the order of the registry
C4_EmptyMapScoresZero ==
  \A i \in Returned :
    results[i].headers = <<>> =>
      LET rules == CheckedRules(checkers[results[i].checker].securityHeaders)
          r == ResultOf(i)
      IN  /\ r.score = 0
          /\ r.grade = "F"
          /\ Len(r.findings) = Len(rules)
          /\ \A k \in 1..Len(rules) :
               r.findings[k].status = "missing" /\ r.findings[k].header = rules[k].name

\* the empty header map was analyzed
C4_Witness ==
  \E i \in Returned : results[i].headers = <<>> /\ Len(ResultOf(i).findings) = 23

\* a result without its timestamp
Untimed(out) ==
  IF out.threw THEN out
  ELSE [f \in DOMAIN out.value \ {"timestamp"} |-> out.value[f]]

\* C5: two analyzeHeaders calls with the same url, header map and status
\* code, on the same checker or on two checkers built from the same
\* registry, return results equal in every field but the timestamp
C5_Deterministic ==
  \A i, j \in 1..Len(results) :
    /\ results[i].url = results[j].url
    /\ results[i].headers = results[j].headers
    /\ results[i].statusCode = results[j].statusCode
    => Untimed(results[i].out) = Untimed(results[j].out)

\* two calls on different checkers returned at different times
C5_Witness ==
  \E i, j \in Returned :
    /\ results[i].checker # results[j].checker
    /\ results[i].headers = results[j].headers
    /\ ResultOf(i).timestamp # ResultOf(j).timestamp
    /\ Len(ResultOf(i).findings) > 23

\* C6: an analyzeHeaders call leaves the rule registry and the analyzers of
\* every checker, the header modules, the config tables and the header map
\* of the caller as they were, and no checker gains a field holding a result
C6_NoSharedStateWritten ==
  [][/\ checkers' = checkers
     /\ headerModules' = headerModules
     /\ config' = config
     /\ headers' = headers]_vars

\* two calls were made on a checker that is as createDefaultChecker built it
C6_Witness ==
  /\ Len(results) = MaxCalls
  /\ \E i \in 1..Len(results) :
       /\ i > 1
       /\ results[i].checker = results[i - 1].checker
       /\ checkers[results[i].checker]
            = createDefaultChecker(DefaultHeaderModules, DefaultOptions)
  /\ config = DefaultConfig
  /\ Len(headers) > 0

\* C7 as claimed: analyzeHeaders returns a result for every header map of
\* strings and sequences of strings, a value its validator cannot handle
\* being reported as a misconfigured finding
C7_NeverThrows == \A i \in 1..Len(results) : ~results[i].out.threw

\* the api of a call ended as the claim says: checkUrl never rejects, and a
\* call whose fetch, checker construction or analysis failed is resolved
\* with the error result carrying the message
ErrorShaped(call) ==
  /\ call.pc = "rejected" => call.api = "scanUrl" /\ call.url = ""
  /\ (call.pc = "resolved" /\ call.failed) =>
       /\ call.value.status = "error"
       /\ call.value.errorMessage = call.error
       /\ call.value.headers = <<>>
       /\ call.value.findings = <<>>
       /\ call.value.score = 0
       /\ call.value.grade = "F"
       /\ DOMAIN call.value = {"url", "status", "errorMessage", "timestamp",
                               "headers", "findings", "score", "grade"}

\* C8: a checkUrl call whose fetch fails does not reject, it eventually
\* resolves to the error result (status error, the message, no headers, no
\* findings, score 0, grade F); so does a scanUrl call whose checker
\* construction or scan fails.  scanUrl rejects a falsy url before either.
C8_FailuresResolveToErrorResult ==
  /\ [](\A p \in Callers : ErrorShaped(calls[p]))
  /\ \A p \in Callers : (calls[p].pc = "fetching") ~> (calls[p].pc = "resolved")

\* one caller's checkUrl resolved after a rejected fetch, the other's
\* scanUrl after createDefaultChecker threw
C8_Witness ==
  \E p, q \in Callers :
    /\ calls[p].pc = "resolved" /\ calls[p].api = "checkUrl" /\ calls[p].failed
    /\ calls[p].error = "Domain not found: https://example.com"
    /\ calls[q].pc = "resolved" /\ calls[q].api = "scanUrl" /\ calls[q].failed
    /\ calls[q].error = TypeError.message

\* the penalties of the dangerous findings of a result, uncapped
UncappedDangerous(result) ==
  LET dangerous(f) == f.status = "dangerous"
      penalty(f) == RatingPenalty(DefaultConfig.dangerousHeaderPenalties, f.criticalRating)
  IN  SumSeq(MapSeq(SelectSeq(result.findings, dangerous), penalty))

\* C9: the disclosure penalty and the cookie penalty of every result lie
\* between 0 and 10 points; Server: nginx/1.18.0 adds to the disclosure
\* penalty, which stays at most 10 whatever other disclosure headers come
C9_PenaltiesCapped ==
  \A i \in Returned :
    LET penalties == ResultOf(i).scoreBreakdown.penalties
    IN  /\ penalties.dangerous \in 0..(10 * Tenths)
        /\ penalties.cookies \in 0..(10 * Tenths)
        /\ GetHeader(ResultOf(i).headers, "server") = Str("nginx/1.18.0") =>
             penalties.dangerous >= 3 * Tenths

\* Server: nginx/1.18.0 among disclosure headers worth more than 10 points
C9_Witness ==
  \E i \in Returned :
    /\ GetHeader(ResultOf(i).headers, "server") = Str("nginx/1.18.0")
    /\ UncappedDangerous(ResultOf(i)) > 10 * Tenths
    /\ ResultOf(i).scoreBreakdown.penalties.dangerous = 10 * Tenths

\* the severity the HSTS checks give the string v in the claimed order, ""
\* for no issue
HstsSeverity(v) ==
  IF ~Includes(v, "max-age=") THEN "high"
  ELSE IF MatchMaxAge(v) # Null /\ ParseInt(MatchMaxAge(v)).n < 31536000 THEN "medium"
  ELSE IF ~Includes(v, "includeSubDomains") THEN "low"
  ELSE IF ~Includes(v, "preload") THEN "info"
  ELSE ""

CookieSecurityFindings(result) ==
  LET cookieSecurity(f) == f.header = "Cookie Security"
  IN  SelectSeq(result.findings, cookieSecurity)

\* the only cookie of the header map is session=abc123; Secure, given as a
\* string or as a sequence of one string
OnlySessionCookie(result) ==
  GetHeader(result.headers, "set-cookie")
    \in {Str("session=abc123; Secure"), Arr(<<"session=abc123; Secure">>)}

\* C11: Set-Cookie: session=abc123; Secure as the only cookie yields one
\* finding of the cookie analyzer, and it lists exactly two sub-issues:
\* missing HttpOnly with high severity, missing SameSite with medium (the
\* Set-Cookie rule of the registry reports its own finding beside it)
C11_SessionCookieTwoIssues ==
  \A i \in Returned :
    OnlySessionCookie(ResultOf(i)) =>
      LET found == CookieSecurityFindings(ResultOf(i))
      IN  /\ Len(found) = 1
          /\ found[1].cookie = "session"
          /\ Len(found[1].issues) = 2
          /\ {<<found[1].issues[k].type, found[1].issues[k].criticalRating>> : k \in 1..2}
               = {<<"missing_httponly", "high">>, <<"missing_samesite", "medium">>}
          /\ \A k \in 1..Len(ResultOf(i).findings) :
               "issues" \in DOMAIN ResultOf(i).findings[k]
                 => ResultOf(i).findings[k] = found[1]

\* the cookie was analyzed, given as a sequence of one string beside well
\* configured headers
C11_Witness ==
  \E i \in Returned :
    /\ GetHeader(ResultOf(i).headers, "set-cookie") = Arr(<<"session=abc123; Secure">>)
    /\ Len(CookieSecurityFindings(ResultOf(i))) = 1
    /\ Len(ResultOf(i).headers) > 1

\* two header maps differ at most in the letter case of their names
SameUpToCase(g, h) ==
  /\ Len(g) = Len(h)
  /\ \A k \in 1..Len(g) : ToLowerCase(g[k][1]) = ToLowerCase(h[k][1]) /\ g[k][2] = h[k][2]

\* C12: header names are compared without regard to letter case: for two
\* header maps that differ only in the letter case of their names, no two
\* names of a map being equal up to case, analyzeHeaders returns the same
\* findings, score, grade and normalized header map, whose names are all
\* lowercase
C12_NamesCaseInsensitive ==
  \A i \in Returned : \A j \in 1..Len(results) :
    (NoCaseClash(results[i].headers) /\ SameUpToCase(results[i].headers, results[j].headers)) =>
      /\ ~results[j].out.threw
      /\ ResultOf(j).findings = ResultOf(i).findings
      /\ ResultOf(j).score = ResultOf(i).score
      /\ ResultOf(j).grade = ResultOf(i).grade
      /\ ResultOf(j).headers = ResultOf(i).headers
      /\ \A k \in 1..Len(ResultOf(i).headers) :
           ResultOf(i).headers[k][1] = ToLowerCase(results[i].headers[k][1])

\* a header map with present headers was analyzed as it was and with its
\* names in capital letters
C12_Witness ==
  \E i, j \in Returned :
    /\ results[j].headers # results[i].headers
    /\ results[j].headers = CapitalNames(results[i].headers)
    /\ \E k \in 1..Len(ResultOf(i).findings) : ResultOf(i).findings[k].status = "present"
    /\ \E k \in 1..Len(ResultOf(i).findings) : ResultOf(i).findings[k].status = "dangerous"

\* the header map h is the header map g and one more header, whose
\* lowercase name the checker does not look up
OneUnknownMore(g, h) ==
  /\ Len(h) = Len(g) + 1
  /\ SubSeq(h, 1, Len(g)) = g
  /\ ToLowerCase(h[Len(h)][1]) \notin LookedUpNames \cup LowerNames(g)

\* C13: adding a header whose lowercase name is in neither the registry nor
\* the disclosure table nor set-cookie raises no error and leaves the
\* findings, the score, the grade and the score breakdown as they were;
\* the normalized header map of the result gains the entry
C13_UnknownHeaderIgnored ==
  \A i \in Returned : \A j \in 1..Len(results) :
    OneUnknownMore(results[i].headers, results[j].headers) =>
      /\ ~results[j].out.threw
      /\ ResultOf(j).findings = ResultOf(i).findings
      /\ ResultOf(j).score = ResultOf(i).score
      /\ ResultOf(j).grade = ResultOf(i).grade
      /\ ResultOf(j).scoreBreakdown = ResultOf(i).scoreBreakdown
      /\ ResultOf(j).headers =
           Append(ResultOf(i).headers,
                  <<ToLowerCase(results[j].headers[Len(results[j].headers)][1]),
                    results[j].headers[Len(results[j].headers)][2]>>)

\* a header map with present and dangerous headers was analyzed without
\* and with X-Request-Id
C13_Witness ==
  \E i, j \in Returned :
    /\ OneUnknownMore(results[i].headers, results[j].headers)
    /\ results[j].headers[Len(results[j].headers)][1] = "X-Request-Id"
    /\ \A status \in {"present", "dangerous"} :
         \E k \in 1..Len(ResultOf(i).findings) : ResultOf(i).findings[k].status = status

\* the calls of the validator of the header key with a value that is not
\* there: undefined or the empty string
AbsentCalls(key) ==
  {i \in 1..Len(results) : results[i].key = key /\ results[i].value \in {Undefined, Str("")}}

\* C14: called with an absent value (undefined or empty), the HSTS and the
\* CSP validator do not throw; each returns an issue of high severity, the
\* HSTS validator the issue 'HSTS header missing', the CSP validator an
\* issue whose text mentions 'CSP'
C14_AbsentValueIsAnIssue ==
  /\ \A i \in AbsentCalls("strict-transport-security") :
       /\ ~results[i].out.threw
       /\ results[i].out.value = Issue("HSTS header missing", "high")
  /\ \A i \in AbsentCalls("content-security-policy") :
       /\ ~results[i].out.threw
       /\ results[i].out.value # Null
       /\ results[i].out.value.criticalRating = "high"
       /\ ValueIncludes(Str(results[i].out.value.issue), "CSP")

\* the HSTS validator was called with undefined and the CSP validator with
\* the empty string
C14_Witness ==
  /\ \E i \in AbsentCalls("strict-transport-security") : results[i].value = Undefined
  /\ \E i \in AbsentCalls("content-security-policy") : results[i].value = Str("")

\* what checkUrl resolves to, timestamp aside, when out is what its try
\* block returned or threw
ResolvedTo(call, out) ==
  Untimed(Ret(IF out.threw THEN ErrorResult(call.url, out.message, 0) ELSE out.value))

\* what the response, or the failure, of the fetch of a call produces,
\* timestamp aside, when its url is scanned alone: the clock reads 0 and no
\* other call is in flight
ScannedAlone(call) ==
  IF call.outcome.fulfilled
  THEN ResolvedTo(call, analyzeHeaders(call.checker, DefaultConfig, 0, call.url,
                                       call.outcome.response.headers,
                                       call.outcome.response.status))
  ELSE Untimed(Ret(ErrorResult(call.url, call.outcome.message, 0)))

\* C15: with checkUrl calls in flight at the same time, on a shared checker
\* or on separate ones, their fetches settling in any order, what each call
\* resolves to equals, timestamp aside, what the response of its own url
\* produces when that url is scanned alone
C15_ConcurrentScansIndependent ==
  [][\A p \in Callers :
       (calls[p].pc = "settled" /\ calls[p].api = "checkUrl" /\ calls'[p].pc = "resolved") =>
         Untimed(Ret(calls'[p].value)) = ScannedAlone(calls[p])]_vars

\* two checkUrl calls of the same url were in flight together and resolved,
\* the one that resolved first with another score than the other
C15_Witness ==
  \E p, q \in Callers :
    /\ calls[p].pc = "resolved" /\ calls[p].api = "checkUrl" /\ ~calls[p].failed
    /\ calls[q].pc = "resolved" /\ calls[q].api = "checkUrl" /\ ~calls[q].failed
    /\ calls[p].url = calls[q].url
    /\ calls[p].value.timestamp < calls[q].value.timestamp
    /\ calls[p].value.score # calls[q].value.score

\* the reports made so far
Reports == {i \in 1..Len(results) : "report" \in DOMAIN results[i]}

\* the severities, the highest first
SeverityOrder == <<"high", "medium", "low", "info">>

\* finding g is of strictly lower severity than finding f
LowerSeverity(g, f) ==
  \E a, b \in 1..Len(SeverityOrder) :
    /\ SeverityOrder[a] = f.criticalRating
    /\ SeverityOrder[b] = g.criticalRating
    /\ a < b

\* C16: in the findings array of the JSON report no finding is preceded by
\* a finding of strictly lower severity, the severities being high, medium,
\* low and info from the highest down
C16_ReportSortedBySeverity ==
  \A i \in Reports :
    \A a, b \in 1..Len(results[i].report.findings) :
      a < b => ~LowerSeverity(results[i].report.findings[a], results[i].report.findings[b])

\* a report was made of a result whose findings, of all four severities,
\* were not in the order of their severity
C16_Witness ==
  \E i \in Reports :
    /\ \A k \in 1..Len(SeverityOrder) :
         Len(FilterBy(results[i].report.findings, "criticalRating", SeverityOrder[k])) > 0
    /\ results[i].report.findings # results[results[i].of].out.value.findings
    /\ Len(results[i].report.findings) = Len(results[results[i].of].out.value.findings)

\* the findings analyzeHeaders built from the rules of the registry: those
\* that carry a category
RuleFindings(result) ==
  LET ofRule(f) == "category" \in DOMAIN f
  IN  SelectSeq(result.findings, ofRule)

\* the share of its weight a misconfigured header loses, in tenths
ClaimedMultiplier(severity) ==
  CASE severity = "high" -> 8
    [] severity = "medium" -> 6
    [] severity = "low" -> 3
    [] severity = "info" -> 1

\* the points a rule finding earns, in tenths: none when it is missing
Earning(f) == IF f.status = "missing" THEN 0 ELSE f.pointsEarned

\* the finding f of a rule whose header is there, verdict being what its
\* validator returns: present with the full weight without an issue,
\* misconfigured with weight x (1 - multiplier) with one
ValidatedAsClaimed(rule, f, verdict) ==
  IF verdict.value = Null
  THEN f.status = "present" /\ f.pointsEarned = f.weight * Tenths
  ELSE /\ f.status = "misconfigured"
       /\ f.issue = verdict.value.issue
       /\ f.criticalRating = (IF verdict.value.criticalRating # ""
                              THEN verdict.value.criticalRating ELSE rule.criticalRating)
       /\ f.pointsEarned = f.weight * (Tenths - ClaimedMultiplier(f.criticalRating))

\* the finding f of a rule as the claim has it, value being the value of the
\* header of the rule: absent when undefined or empty
RuleFindingAsClaimed(rule, f, value, normalizedHeaders) ==
  /\ f.header = rule.name
  /\ IF ~Truthy(value)
     THEN f.status = "missing" /\ "pointsEarned" \notin DOMAIN f
     ELSE ValidatedAsClaimed(rule, f,
            IF rule.checkConfiguration = "none" THEN Ret(Null)
            ELSE CallValidator(rule.checkConfiguration, value, normalizedHeaders))

\* C17: for every rule of the registry analyzeHeaders emits exactly one
\* finding: missing, earning none of its weight, if the header is absent;
\* present, earning the full weight, if its validator (if any) reports no
\* issue; misconfigured, earning weight x (1 - multiplier of the severity),
\* if it reports one, the severity being that of the issue or else of the
\* rule and the multipliers 0.8 (high), 0.6 (medium), 0.3 (low), 0.1 (info);
\* the earned points of a category are the sum of these earnings
C17_OneFindingPerRule ==
  \A i \in Returned :
    /\ Len(RuleFindings(ResultOf(i)))
         = Len(CheckedRules(checkers[results[i].checker].securityHeaders))
    /\ \A k \in 1..Len(RuleFindings(ResultOf(i))) :
         RuleFindingAsClaimed(
           CheckedRules(checkers[results[i].checker].securityHeaders)[k],
           RuleFindings(ResultOf(i))[k],
           GetHeader(ResultOf(i).headers,
                     CheckedRules(checkers[results[i].checker].securityHeaders)[k].key),
           ResultOf(i).headers)
    /\ \A category \in {"essential", "advanced", "cors"} :
         ResultOf(i).scoreBreakdown[category].earned
           = SumSeq(MapSeq(FilterBy(RuleFindings(ResultOf(i)), "category", category),
                           Earning))

\* a result with a missing, a present and a misconfigured finding, the
\* misconfigured one of another severity than its rule
C17_Witness ==
  \E i \in Returned :
    /\ \A status \in {"missing", "present", "misconfigured"} :
         Len(FilterBy(RuleFindings(ResultOf(i)), "status", status)) > 0
    /\ \E k \in 1..Len(RuleFindings(ResultOf(i))) :
         /\ RuleFindings(ResultOf(i))[k].status = "misconfigured"
         /\ RuleFindings(ResultOf(i))[k].criticalRating
              # CheckedRules(checkers[results[i].checker].securityHeaders)[k].criticalRating

\* earned points / total weight x contribution of a category of a
\* breakdown, as a fraction counting tenths of a point
ClaimedTerm(breakdown, category, contribution) ==
  [num |-> breakdown[category].earned * contribution, den |-> breakdown[category].total]

\* E + A + C - disclosurePenalty - cookiePenalty as a fraction counting
\* tenths of a point
ClaimedSum(e, a, c, penalties) ==
  [num |-> e.num * a.den * c.den + a.num * e.den * c.den + c.num * e.den * a.den
           - (penalties.dangerous + penalties.cookies) * e.den * a.den * c.den,
   den |-> e.den * a.den * c.den]

\* round(clamp(x, 0, 100)) of the fraction x counting tenths of a point
RoundOfClamp(x) ==
  IF x.num < 0 THEN 0
  ELSE IF x.num > 100 * Tenths * x.den THEN 100
  ELSE (2 * x.num + x.den * Tenths) \div (2 * x.den * Tenths)

SameFraction(x, y) == x.num * y.den = y.num * x.den

\* C18: the final score is round(clamp(E + A + C - disclosurePenalty -
\* cookiePenalty, 0, 100)), E, A and C being the earned points of the
\* essential, advanced and CORS category divided by the total weight of the
\* category and multiplied by 60, 25 and 15; the weighted values and the
\* penalties of scoreBreakdown are the terms of this sum
C18_ScoreFormula ==
  \A i \in Returned :
    /\ ResultOf(i).score
         = RoundOfClamp(ClaimedSum(ClaimedTerm(ResultOf(i).scoreBreakdown, "essential", 60),
                                   ClaimedTerm(ResultOf(i).scoreBreakdown, "advanced", 25),
                                   ClaimedTerm(ResultOf(i).scoreBreakdown, "cors", 15),
                                   ResultOf(i).scoreBreakdown.penalties))
    /\ SameFraction(ResultOf(i).scoreBreakdown.essential.weighted,
                    ClaimedTerm(ResultOf(i).scoreBreakdown, "essential", 60))
    /\ SameFraction(ResultOf(i).scoreBreakdown.advanced.weighted,
                    ClaimedTerm(ResultOf(i).scoreBreakdown, "advanced", 25))
    /\ SameFraction(ResultOf(i).scoreBreakdown.cors.weighted,
                    ClaimedTerm(ResultOf(i).scoreBreakdown, "cors", 15))

\* a result with points earned in every category and a penalty, its score
\* inside the range
C18_Witness ==
  \E i \in Returned :
    /\ \A category \in {"essential", "advanced", "cors"} :
         ResultOf(i).scoreBreakdown[category].earned > 0
    /\ ResultOf(i).scoreBreakdown.penalties.dangerous
         + ResultOf(i).scoreBreakdown.penalties.cookies > 0
    /\ ResultOf(i).score \in 1..99

\* the grade of a score as the claim has it
ClaimedGrade(score) ==
  CASE score >= 90 -> "A"
    [] 80 <= score /\ score < 90 -> "B"
    [] 70 <= score /\ score < 80 -> "C"
    [] 60 <= score /\ score < 70 -> "D"
    [] 50 <= score /\ score < 60 -> "E"
    [] OTHER -> "F"

\* the grades, the best first
GradeOrder == <<"A", "B", "C", "D", "E", "F">>

\* grade g is better than grade h
BetterGrade(g, h) ==
  \E a, b \in 1..Len(GradeOrder) : GradeOrder[a] = g /\ GradeOrder[b] = h /\ a < b

ClaimedDisclosurePoints(f) ==
  CASE f.criticalRating = "high" -> 3 * Tenths
    [] f.criticalRating = "medium" -> 2 * Tenths
    [] f.criticalRating = "low" -> 1 * Tenths
    [] OTHER -> 0

\* C20 as claimed: the disclosure penalty of a result is the sum over its
\* dangerous findings of 3 points a high, 2 a medium, 1 a low and 0 an info
\* finding, capped at 10 points
C20_DisclosurePenaltyAsClaimed ==
  \A i \in Returned :
    ResultOf(i).scoreBreakdown.penalties.dangerous
      = Min(SumSeq(MapSeq(FilterBy(ResultOf(i).findings, "status", "dangerous"),
                          ClaimedDisclosurePoints)),
            10 * Tenths)

\* the dangerous findings of a result that have the header name, the
\* description and the severity given
DangerousLike(result, name, description, rating) ==
  LET like(f) == /\ f.status = "dangerous" /\ f.header = name
                 /\ f.description = description /\ f.criticalRating = rating
  IN  SelectSeq(result.findings, like)

\* the value holds a version number N.N, a third number or not: somewhere a
\* number, a dot and a number follow each other
ContainsVersion(value) ==
  \E i, j \in 1..Len(JsString(value)) :
    /\ j = i + 2
    /\ SubSeq(JsString(value), i, i) \in {"0", "1", "2", "3", "4", "5", "6", "7", "8", "9"}
    /\ SubSeq(JsString(value), i + 1, i + 1) = "."
    /\ SubSeq(JsString(value), j, j) \in {"0", "1", "2", "3", "4", "5", "6", "7", "8", "9"}

\* 1 when the condition holds, 0 when it does not
OneIf(cond) == IF cond THEN 1 ELSE 0

\* C21: the disclosure analyzer emits one dangerous finding, of the severity
\* of the table, for each header of the disclosure table that is present,
\* and one more, of medium severity, for Server and for X-Powered-By exactly
\* when the value of that header holds a version number N.N or N.N.N; it
\* emits no other dangerous finding
C21_DisclosureFindings ==
  \A i \in Returned :
    /\ \A k \in 1..Len(dangerousHeaders) :
         Len(DangerousLike(ResultOf(i), dangerousHeaders[k].name,
                           dangerousHeaders[k].description,
                           dangerousHeaders[k].criticalRating))
           = OneIf(Truthy(GetHeader(ResultOf(i).headers, dangerousHeaders[k].key)))
    /\ Len(DangerousLike(ResultOf(i), "Server",
                         "Server header contains version information", "medium"))
         = OneIf(/\ Truthy(GetHeader(ResultOf(i).headers, "server"))
                 /\ ContainsVersion(GetHeader(ResultOf(i).headers, "server")))
    /\ Len(DangerousLike(ResultOf(i), "X-Powered-By",
                         "X-Powered-By header contains version information", "medium"))
         = OneIf(/\ Truthy(GetHeader(ResultOf(i).headers, "x-powered-by"))
                 /\ ContainsVersion(GetHeader(ResultOf(i).headers, "x-powered-by")))
    /\ Len(FilterBy(ResultOf(i).findings, "status", "dangerous"))
         = Cardinality({k \in 1..Len(dangerousHeaders) :
                          Truthy(GetHeader(ResultOf(i).headers, dangerousHeaders[k].key))})
           + Len(DangerousLike(ResultOf(i), "Server",
                               "Server header contains version information", "medium"))
           + Len(DangerousLike(ResultOf(i), "X-Powered-By",
                               "X-Powered-By header contains version information", "medium"))

\* a result with two findings for X-Powered-By: PHP/8.1, the finding of the
\* table and the finding of the version number
C21_Witness ==
  \E i \in Returned :
    /\ GetHeader(ResultOf(i).headers, "x-powered-by") = Str("PHP/8.1")
    /\ Len(FilterBy(FilterBy(ResultOf(i).findings, "status", "dangerous"),
                    "header", "X-Powered-By")) = 2

\* the attributes of a cookie after RFC 6265: the parts after the first
\* semicolon, each a name, or a name and a value, the name in any letter case
CookieAttributes(cookie) ==
  LET part(av) == [name |-> ToLowerCase(Trim(Split(av, "=")[1])),
                   value |-> IF Len(Split(av, "=")) > 1
                             THEN ToLowerCase(Trim(Split(av, "=")[2])) ELSE ""]
  IN  MapSeq(Tail(Split(cookie, ";")), part)

HasAttribute(cookie, name) ==
  \E k \in 1..Len(CookieAttributes(cookie)) : CookieAttributes(cookie)[k].name = name

\* the issues the cookie analyzer reported for a cookie: those of its
\* finding, none without a finding
ReportedIssues(findings, cookie) ==
  LET of(f) == f.value = Str(cookie)
  IN  IF Len(SelectSeq(findings, of)) > 0 THEN SelectSeq(findings, of)[1].issues ELSE <<>>

HasIssue(issues, type, rating) ==
  \E k \in 1..Len(issues) : issues[k].type = type /\ issues[k].criticalRating = rating

\* the issues of one cookie are as the claim has them
CookieIssuesAsClaimed(cookie, issues) ==
  /\ HasIssue(issues, "missing_secure", "high") <=> ~HasAttribute(cookie, "secure")
  /\ HasIssue(issues, "missing_httponly", "high") <=> ~HasAttribute(cookie, "httponly")
  /\ HasIssue(issues, "missing_samesite", "medium") <=> ~HasAttribute(cookie, "samesite")
  /\ (\E k \in 1..Len(CookieAttributes(cookie)) :
        /\ CookieAttributes(cookie)[k] = [name |-> "samesite", value |-> "none"]
        /\ ~HasAttribute(cookie, "secure"))
       => HasIssue(issues, "samesite_none_without_secure", "high")
  /\ (HasAttribute(cookie, "secure") /\ HasAttribute(cookie, "httponly")
      /\ HasAttribute(cookie, "samesite")) => issues = <<>>

\* the calls of cookieAnalyzer made
CookieCalls == {i \in 1..Len(results) : results[i].fn = "cookieAnalyzer"}

\* C22 as claimed: for each cookie the cookie analyzer reports a high issue
\* iff the Secure attribute is absent, a high issue iff the HttpOnly
\* attribute is absent, a medium issue iff the SameSite attribute is absent,
\* a high issue when SameSite=None comes without Secure, and no issue for a
\* cookie that has Secure, HttpOnly and a SameSite attribute
C22_CookieIssuesByAttribute ==
  \A i \in CookieCalls :
    \A k \in 1..Len(CookieList(results[i].value)) :
      CookieIssuesAsClaimed(CookieList(results[i].value)[k],
                            ReportedIssues(results[i].out.value.findings,
                                           CookieList(results[i].value)[k]))

\* the name of the cookie holds one of the sensitive keywords
SensitiveName(cookie) ==
  \E k \in 1..Len(sensitiveKeywords) :
    Includes(ToLowerCase(CookieName(cookie)), sensitiveKeywords[k])

\* the types of the issues the analyzer has for the single attributes
AttributeIssueTypes ==
  {"missing_secure", "missing_httponly", "missing_samesite", "samesite_none_without_secure"}

\* C23 as claimed: a cookie whose name holds a sensitive keyword and that
\* misses Secure, HttpOnly or SameSite is flagged by the cookie analyzer
\* with a high issue for being a sensitive cookie, next to the issues of
\* its single attributes
C23_SensitiveCookieFlagged ==
  \A i \in CookieCalls :
    \A k \in 1..Len(CookieList(results[i].value)) :
      LET cookie == CookieList(results[i].value)[k]
          issues == ReportedIssues(results[i].out.value.findings, cookie)
      IN  (/\ SensitiveName(cookie)
           /\ \/ ~HasAttribute(cookie, "secure")
              \/ ~HasAttribute(cookie, "httponly")
              \/ ~HasAttribute(cookie, "samesite"))
            => \E n \in 1..Len(issues) :
                 /\ issues[n].type \notin AttributeIssueTypes
                 /\ issues[n].criticalRating = "high"

\* the cookies of a Set-Cookie value: the elements of a sequence, or the one
\* text
SetCookies(value) == IF value.kind = "array" THEN value.a ELSE <<value.s>>

\* the findings of the cookie analyzer for each cookie that is analyzed
\* alone
FindingsAlone == [cookie \in Cookies |-> cookieAnalyzer(Str(cookie)).findings]

\* the findings of the cookie analyzer for one cookie that is analyzed alone
AnalyzedAlone(cookie) == FindingsAlone[cookie]

\* C24: the Set-Cookie values are kept as a sequence and evaluated each on
\* its own: the cookie findings of a result are, in the order of the
\* cookies, one misconfigured finding with the issues of the cookie for
\* each cookie that has an issue and none for a cookie without one, each
\* the finding the cookie gets when it is analyzed alone
C24_OneFindingPerFlawedCookie ==
  \A i \in Returned :
    Truthy(GetHeader(ResultOf(i).headers, "set-cookie")) =>
      /\ CookieSecurityFindings(ResultOf(i))
           = Flatten(MapSeq(SetCookies(GetHeader(ResultOf(i).headers, "set-cookie")),
                            AnalyzedAlone))
      /\ \A k \in 1..Len(CookieSecurityFindings(ResultOf(i))) :
           /\ CookieSecurityFindings(ResultOf(i))[k].status = "misconfigured"
           /\ Len(CookieSecurityFindings(ResultOf(i))[k].issues) > 0
      /\ \A k \in 1..Len(SetCookies(GetHeader(ResultOf(i).headers, "set-cookie"))) :
           Len(AnalyzedAlone(SetCookies(GetHeader(ResultOf(i).headers, "set-cookie"))[k])) <= 1

\* a result for two cookies, the first without an issue and the second with
\* two: one finding, that of the second cookie
C24_Witness ==
  \E i \in Returned :
    /\ GetHeader(ResultOf(i).headers, "set-cookie")
         = Arr(<<"id=1; Secure; HttpOnly; SameSite=Lax", "session=abc123; Secure">>)
    /\ Len(CookieSecurityFindings(ResultOf(i))) = 1
    /\ CookieSecurityFindings(ResultOf(i))[1].cookie = "session"
    /\ Len(CookieSecurityFindings(ResultOf(i))[1].issues) = 2

\* the calls of the CSP validator with a text that is not empty
CspCalls ==
  {i \in 1..Len(results) :
     /\ results[i].key = "content-security-policy"
     /\ results[i].value.kind = "string" /\ results[i].value.s # ""}

\* the directives default-src, script-src and style-src a policy lacks
LackingDirectives(policy) ==
  (IF Includes(policy, "default-src") THEN <<>> ELSE <<"default-src">>)
  \o (IF Includes(policy, "script-src") THEN <<>> ELSE <<"script-src">>)
  \o (IF Includes(policy, "style-src") THEN <<>> ELSE <<"style-src">>)

\* the severity of the one issue the claim gives a policy, "" for none
ClaimedCspSeverity(policy) ==
  IF Includes(policy, "'unsafe-inline'") \/ Includes(policy, "'unsafe-eval'") THEN "high"
  ELSE IF Includes(policy, "*") /\ ~Includes(policy, "font-src") /\ ~Includes(policy, "img-src")
  THEN "medium"
  ELSE IF LackingDirectives(policy) # <<>> THEN "medium"
  ELSE ""

\* C25: the CSP validator returns at most one issue, that of the first
\* match: high if the value holds 'unsafe-inline' or 'unsafe-eval'; else
\* medium if it holds * and names neither font-src nor img-src; else medium,
\* listing them, if default-src, script-src or style-src is lacking; else no
\* issue, as for default-src 'self'; script-src 'self'; style-src 'self'
C25_CspFirstMatch ==
  \A i \in CspCalls :
    /\ ~results[i].out.threw
    /\ IF ClaimedCspSeverity(results[i].value.s) = ""
       THEN results[i].out.value = Null
       ELSE /\ results[i].out.value # Null
            /\ results[i].out.value.criticalRating = ClaimedCspSeverity(results[i].value.s)
    /\ (/\ ClaimedCspSeverity(results[i].value.s) = "medium"
        /\ ~Includes(results[i].value.s, "*"))
         => results[i].out.value.issue
              = "CSP missing recommended directives: "
                \o Join(LackingDirectives(results[i].value.s), ", ")
    /\ results[i].value.s = "default-src 'self'; script-src 'self'; style-src 'self'"
         => results[i].out.value = Null

\* the validator was called on a policy with an unsafe directive and a
\* wildcard, which it rates high
C25_Witness ==
  \E i \in CspCalls :
    /\ Includes(results[i].value.s, "'unsafe-eval'") /\ Includes(results[i].value.s, "*")
    /\ results[i].out.value.criticalRating = "high"

\* the findings of a result for the rule Access-Control-Allow-Credentials
AllowCredentialsFindings(result) ==
  FilterBy(result.findings, "header", "Access-Control-Allow-Credentials")

\* C26: the Access-Control-Allow-Credentials rule is reported misconfigured,
\* with high severity, exactly when its value is true in any letter case
\* and the Access-Control-Allow-Origin header of the same normalized map is
\* exactly *; in every other case of a value that is there, an absent
\* Allow-Origin among them, it is reported present
C26_CredentialsWithWildcardOrigin ==
  \A i \in Returned :
    Truthy(GetHeader(ResultOf(i).headers, "access-control-allow-credentials")) =>
      /\ Len(AllowCredentialsFindings(ResultOf(i))) = 1
      /\ IF /\ ToLowerCase(GetHeader(ResultOf(i).headers,
                                     "access-control-allow-credentials").s) = "true"
            /\ GetHeader(ResultOf(i).headers, "access-control-allow-origin") = Str("*")
         THEN /\ AllowCredentialsFindings(ResultOf(i))[1].status = "misconfigured"
              /\ AllowCredentialsFindings(ResultOf(i))[1].criticalRating = "high"
         ELSE AllowCredentialsFindings(ResultOf(i))[1].status = "present"

\* a result for Allow-Credentials TRUE and Allow-Origin *, given under names
\* the map normalizes
C26_Witness ==
  \E i \in Returned :
    /\ GetHeader(ResultOf(i).headers, "access-control-allow-credentials") = Str("TRUE")
    /\ GetHeader(ResultOf(i).headers, "access-control-allow-origin") = Str("*")
    /\ AllowCredentialsFindings(ResultOf(i))[1].status = "misconfigured"

\* the name under which the rule of the advanced header key is reported
AdvancedRuleName(key) ==
  advancedHeaders[CHOOSE i \in 1..Len(advancedHeaders) :
                    advancedHeaders[i].key = key].name

\* a header value the validator of the header key cannot read as JSON: a
\* text JSON.parse rejects, or one it parses into null where the validator
\* goes on to read properties of the parsed value
JsonUnreadable(key, value) ==
  /\ IsStr(value)
  /\ Truthy(value)
  /\ \/ ~JsonParse(value).ok
     \/ /\ key \in {"report-to", "nel"}
        /\ JsonParse(value).val = Null

\* the values the callers give the header key, an absent one among them
GivenValues(key) ==
  ValuesOf(key) \cup {GetHeader(profile, key) : profile \in Profiles}

\* the headers the claim takes for JSON, each with the values it is given
JsonGiven ==
  UNION {{<<key, value>> : value \in GivenValues(key)} :
         key \in {"expect-ct", "report-to", "nel", "clear-site-data"}}

\* whether each of these headers and values cannot be read as JSON
UnreadableJson == [p \in JsonGiven |-> JsonUnreadable(p[1], p[2])]

\* the findings of a result for the rule of the advanced header key
AdvancedFindings(result, key) ==
  FilterBy(result.findings, "header", AdvancedRuleName(key))

\* the unreadable values of the headers in keys are reported as
\* low-severity invalid-JSON issues, and no scan of a map of texts holding
\* one throws
InvalidJsonIsAnIssue(keys) ==
  /\ \A i \in Returned : \A key \in keys :
       UnreadableJson[<<key, GetHeader(ResultOf(i).headers, key)>>] =>
         /\ Len(AdvancedFindings(ResultOf(i), key)) = 1
         /\ AdvancedFindings(ResultOf(i), key)[1].status = "misconfigured"
         /\ AdvancedFindings(ResultOf(i), key)[1].criticalRating = "low"
         /\ Includes(AdvancedFindings(ResultOf(i), key)[1].issue, "invalid JSON")
  /\ \A i \in 1..Len(results) :
       \/ ~results[i].out.threw
       \/ ~(/\ \E key \in keys : UnreadableJson[<<key, GetHeader(results[i].headers, key)>>]
            /\ Cardinality({j \in 1..Len(results[i].headers) :
                              ~IsStr(results[i].headers[j][2])}) = 0)

\* C27 as stated: for each of Expect-CT, Report-To, NEL and Clear-Site-Data
\* a value that fails to parse as JSON, or whose parsed value cannot be
\* inspected, yields a low-severity invalid-JSON issue and no exception
C27_InvalidJsonOfFourHeaders ==
  InvalidJsonIsAnIssue({"expect-ct", "report-to", "nel", "clear-site-data"})

\* C27 amended: for each of Report-To, NEL and Clear-Site-Data a value that
\* fails to parse as JSON, or whose parsed value cannot be inspected,
\* yields a low-severity invalid-JSON issue and no exception; Expect-CT is
\* not parsed as JSON
C27_InvalidJsonOfParsedHeaders ==
  InvalidJsonIsAnIssue({"report-to", "nel", "clear-site-data"})

\* a result for a NEL header of null, reported as invalid JSON
C27_Witness ==
  \E i \in Returned :
    /\ GetHeader(ResultOf(i).headers, "nel") = Str("null")
    /\ AdvancedFindings(ResultOf(i), "nel")[1].issue
         = "NEL header contains invalid JSON"

\* the points the rule findings of one category of a result earn, in tenths
EarnedIn(result, category) ==
  SumSeq(MapSeq(FilterBy(RuleFindings(result), "category", category), Earning))

\* earned points / total weight x contribution of a category, the earned
\* points counted from the findings of that category
TermOfFindings(result, category, contribution) ==
  [num |-> EarnedIn(result, category) * contribution,
   den |-> result.scoreBreakdown[category].total]

\* the findings of a result for the registry rule Set-Cookie
SetCookieRuleFindings(result) ==
  FilterBy(RuleFindings(result), "header", "Set-Cookie")

\* C28: the registry rule Set-Cookie, of category other, yields a finding
\* and never changes the score: the score is round(clamp(...)) of the
\* points the essential, advanced and CORS findings earn and of the two
\* penalties, and the cookie penalty is 0 when Set-Cookie is absent
C28_OtherRulesLeaveScore ==
  \A i \in Returned :
    /\ Len(SetCookieRuleFindings(ResultOf(i))) = 1
    /\ SetCookieRuleFindings(ResultOf(i))[1].category = "other"
    /\ ResultOf(i).score
         = RoundOfClamp(ClaimedSum(TermOfFindings(ResultOf(i), "essential", 60),
                                   TermOfFindings(ResultOf(i), "advanced", 25),
                                   TermOfFindings(ResultOf(i), "cors", 15),
                                   ResultOf(i).scoreBreakdown.penalties))
    /\ ~Truthy(GetHeader(ResultOf(i).headers, "set-cookie"))
         => ResultOf(i).scoreBreakdown.penalties.cookies = 0

\* a result whose Set-Cookie rule earned points of its own while the cookie
\* analyzer took a penalty
C28_Witness ==
  \E i \in Returned :
    /\ SetCookieRuleFindings(ResultOf(i))[1].status # "missing"
    /\ SetCookieRuleFindings(ResultOf(i))[1].pointsEarned > 0
    /\ ResultOf(i).scoreBreakdown.penalties.cookies > 0
    /\ ResultOf(i).score \in 1..99

\* the headers of a call given with the empty string for value
EmptyValued(call) ==
  {j \in 1..Len(call.headers) : call.headers[j][2] = Str("")}

\* what analyzeHeaders returns for the header map of a call with the
\* header at j deleted
WithoutHeader(call, j) ==
  analyzeHeaders(checkers[call.checker], config, 0, call.url,
                 Delete(call.headers, call.headers[j][1]), call.statusCode).value

\* the findings of a result for the header named name: of the rule of that
\* name, or of an analyzer reporting the header
FindingsAbout(result, name) ==
  LET about(f) == "header" \in DOMAIN f /\ ToLowerCase(f.header) = ToLowerCase(name)
  IN  SelectSeq(result.findings, about)

\* C29: a header given with the empty string for value is treated as an
\* absent header is: the findings, the score breakdown, the score and the
\* grade are those of the map without the header; a rule of that name
\* reports it missing, earning nothing, and no analyzer reports it
C29_EmptyValueAsAbsent ==
  \A i \in Returned : \A j \in EmptyValued(results[i]) :
    /\ ResultOf(i).findings = WithoutHeader(results[i], j).findings
    /\ ResultOf(i).scoreBreakdown = WithoutHeader(results[i], j).scoreBreakdown
    /\ ResultOf(i).score = WithoutHeader(results[i], j).score
    /\ ResultOf(i).grade = WithoutHeader(results[i], j).grade
    /\ \A k \in 1..Len(FindingsAbout(ResultOf(i), results[i].headers[j][1])) :
         /\ FindingsAbout(ResultOf(i), results[i].headers[j][1])[k].status = "missing"
         /\ Earning(FindingsAbout(ResultOf(i), results[i].headers[j][1])[k]) = 0
    /\ results[i].headers[j][1] = "server" =>
         ResultOf(i).scoreBreakdown.penalties.dangerous
           = WithoutHeader(results[i], j).scoreBreakdown.penalties.dangerous
    /\ results[i].headers[j][1] = "set-cookie" =>
         /\ CookieSecurityFindings(ResultOf(i)) = <<>>
         /\ ResultOf(i).scoreBreakdown.penalties.cookies = 0

\* results for an empty Strict-Transport-Security, an empty Server or an
\* empty Set-Cookie beside headers that are there
C29_Witness ==
  \E i \in Returned : \E j \in EmptyValued(results[i]) :
    /\ results[i].headers[j][1] \in {"strict-transport-security", "server", "set-cookie"}
    /\ Len(results[i].headers) > 1
    /\ ResultOf(i).score > 0

\* the entry by which the header map of a later call extends that of an
\* earlier one, the empty sequence when the maps are equal
AddedEntry(before, after) ==
  IF Len(after.headers) = Len(before.headers) + 1
     /\ SubSeq(after.headers, 1, Len(before.headers)) = before.headers
  THEN after.headers[Len(after.headers)]
  ELSE <<>>

\* the pairs of returned calls the second of which analyzed the map of the
\* first with one weighed header more
Extensions ==
  {p \in Returned \X Returned :
     /\ AddedEntry(results[p[1]], results[p[2]]) # <<>>
     /\ AddedEntry(results[p[1]], results[p[2]])[1] \in WeighedNames}

\* the added header is Access-Control-Allow-Origin: * and the map held
\* Access-Control-Allow-Credentials: true, in any letter case
WildcardBesideCredentials(before, entry) ==
  /\ entry = <<"access-control-allow-origin", Str("*")>>
  /\ IsStr(GetHeader(before.headers, "access-control-allow-credentials"))
  /\ ToLowerCase(GetHeader(before.headers, "access-control-allow-credentials").s) = "true"

\* C30 as stated: adding an absent essential, advanced or CORS header with
\* any non-empty value, every other header unchanged, never lowers the
\* final score
C30_AddingNeverLowersScore ==
  \A p \in Extensions : ResultOf(p[2]).score >= ResultOf(p[1]).score

\* C30 amended: adding an absent essential, advanced or CORS header with
\* any non-empty value never lowers the final score, unless the header is
\* Access-Control-Allow-Origin: * added beside Access-Control-Allow-
\* Credentials: true, which turns the credentials rule misconfigured
C30_AddingLowersOnlyByWildcard ==
  \A p \in Extensions :
    \/ ResultOf(p[2]).score >= ResultOf(p[1]).score
    \/ WildcardBesideCredentials(results[p[1]], AddedEntry(results[p[1]], results[p[2]]))

\* a badly configured header added to a map, the score rising by the part
\* of the weight the misconfigured header earns
C30_Witness ==
  \E p \in Extensions :
    /\ \E k \in 1..Len(ResultOf(p[2]).findings) :
         /\ ResultOf(p[2]).findings[k].status = "misconfigured"
         /\ ResultOf(p[1]).findings[k].status = "missing"
    /\ ResultOf(p[2]).score > ResultOf(p[1]).score

====
